---------------------------- MODULE Spec2Model ----------------------------
(***************************************************************************)
(* A model of oscar2ics (App.tsx): the layout reconstructor, the course /  *)
(* meeting assembler, the temporal resolver and the event builder, and the *)
(* React state of the App component (courses, filename, selectedCourses,   *)
(* the DataTable's rowSelection) under uploads, selection toggles and      *)
(* downloads.                                                              *)
(*                                                                         *)
(* Text.  A JavaScript string is modelled as a sequence of tokens; a token *)
(* is a TLA+ string that no operation of the program cuts inside: a word,  *)
(* a number, a date, a clock time, a meridiem, and the one-character       *)
(* tokens " ", ",", "-" and "*".  split, trim, join, includes and the      *)
(* regular expressions are computed on the token sequence.                 *)
(*                                                                         *)
(* Optional fields.  A field that may be undefined or null is a sequence   *)
(* of length 0 (absent) or 1 (present).                                    *)
(***************************************************************************)
EXTENDS Integers, Sequences, FiniteSets, TLC

(***************************************************************************)
(* Bounds of the model.                                                    *)
(***************************************************************************)
MaxInflight == 2    \* parses awaiting page text at the same time
MaxRows == 4        \* body rows fed to the assembler in SpecAssemble
MaxDays == 2        \* length of the day-sets drawn in SpecResolve
MaxSel == 3         \* length of the selections drawn in SpecExport
MaxItems == 3       \* text-content items of a document in SpecLayout
MaxPages == 2       \* pages of a document in SpecLayout

None == <<>>
Some(v) == <<v>>
IsSome(o) == Len(o) = 1
Get(o) == o[1]

Min2(a, b) == IF a <= b THEN a ELSE b

(***************************************************************************)
(* JavaScript string operations on token sequences.                        *)
(***************************************************************************)
IsSpace(tok) == tok = " "

RECURSIVE TrimStart(_)
TrimStart(t) ==
  IF t # <<>> /\ IsSpace(t[1]) THEN TrimStart(Tail(t)) ELSE t

RECURSIVE TrimEnd(_)
TrimEnd(t) ==
  IF t # <<>> /\ IsSpace(t[Len(t)]) THEN TrimEnd(SubSeq(t, 1, Len(t) - 1)) ELSE t

\* String.prototype.trim
Trim(t) == TrimEnd(TrimStart(t))

\* String.prototype.split(sep) for a one-token separator: always >= 1 piece
RECURSIVE SplitAcc(_, _, _)
SplitAcc(t, sep, cur) ==
  IF t = <<>> THEN <<cur>>
  ELSE IF t[1] = sep THEN <<cur>> \o SplitAcc(Tail(t), sep, <<>>)
  ELSE SplitAcc(Tail(t), sep, Append(cur, t[1]))

Split(t, sep) == SplitAcc(t, sep, <<>>)

\* String.prototype.split(sep, 2): the first two pieces, the rest is dropped
Split2(t, sep) ==
  LET parts == Split(t, sep) IN SubSeq(parts, 1, Min2(2, Len(parts)))

\* Array.prototype.join(sep) of texts, sep a text
RECURSIVE Join(_, _)
Join(parts, sep) ==
  IF parts = <<>> THEN <<>>
  ELSE IF Len(parts) = 1 THEN parts[1]
  ELSE parts[1] \o sep \o Join(Tail(parts), sep)

\* String.prototype.includes(tok) for a one-character token
Includes(t, tok) == \E i \in 1..Len(t) : t[i] = tok

\* text.replace(/\s+/g, "")
RemoveSpaces(t) == SelectSeq(t, LAMBDA tok : ~IsSpace(tok))

\* the characters of a text, as one TLA+ string
RECURSIVE Str(_)
Str(t) == IF t = <<>> THEN "" ELSE t[1] \o Str(Tail(t))

MapSeq(s, Op(_)) == [i \in 1..Len(s) |-> Op(s[i])]

\* index of the first non-space token at or after i (Len(t)+1 when none)
RECURSIVE SkipSpaces(_, _)
SkipSpaces(t, i) ==
  IF i <= Len(t) /\ IsSpace(t[i]) THEN SkipSpaces(t, i + 1) ELSE i


(***************************************************************************)
(* Civil calendar and the fixed zone America/New_York, as luxon's DateTime *)
(* computes them.  A day number counts days since 1970-01-01.  A DateTime  *)
(* is a wall-clock reading in the zone: [valid, day, ms], ms the           *)
(* millisecond of the day; an invalid DateTime (a failed parse) stays      *)
(* invalid under every operation.                                          *)
(***************************************************************************)
MsPerMinute == 60 * 1000
MsPerHour == 60 * MsPerMinute
MsPerDay == 24 * MsPerHour

DaysFromCivil(y0, m, d) ==
  LET y == IF m <= 2 THEN y0 - 1 ELSE y0
      era == y \div 400
      yoe == y - era * 400
      mp == IF m > 2 THEN m - 3 ELSE m + 9
      doy == (153 * mp + 2) \div 5 + d - 1
      doe == yoe * 365 + yoe \div 4 - yoe \div 100 + doy
  IN era * 146097 + doe - 719468

CivilFromDays(z0) ==
  LET z == z0 + 719468
      era == z \div 146097
      doe == z - era * 146097
      yoe == (doe - doe \div 1460 + doe \div 36524 - doe \div 146096) \div 365
      doy == doe - (365 * yoe + yoe \div 4 - yoe \div 100)
      mp == (5 * doy + 2) \div 153
      d == doy - (153 * mp + 2) \div 5 + 1
      m == IF mp < 10 THEN mp + 3 ELSE mp - 9
      y == yoe + era * 400 + (IF m <= 2 THEN 1 ELSE 0)
  IN [year |-> y, month |-> m, day |-> d]

\* DateTime#weekday: 1 is Monday, 7 is Sunday (1970-01-01 was a Thursday)
WeekdayOfDay(z) == ((z + 3) % 7) + 1

\* the first Sunday on or after day z
SundayOnOrAfter(z) == z + ((7 - WeekdayOfDay(z)) % 7)

\* daylight time in the zone: from the second Sunday of March, 02:00 wall
\* clock, to the first Sunday of November, 02:00 wall clock
DstStartDay(y) == SundayOnOrAfter(DaysFromCivil(y, 3, 1)) + 7
DstEndDay(y) == SundayOnOrAfter(DaysFromCivil(y, 11, 1))

IsDst(day, ms) ==
  LET y == CivilFromDays(day).year IN
  /\ day > DstStartDay(y) \/ (day = DstStartDay(y) /\ ms >= 3 * MsPerHour)
  /\ day < DstEndDay(y) \/ (day = DstEndDay(y) /\ ms < MsPerHour)

\* hours to add to the wall clock to reach UTC
OffsetHours(day, ms) == IF IsDst(day, ms) THEN 4 ELSE 5

Invalid == [valid |-> FALSE, day |-> 0, ms |-> 0]
DT(day, ms) == [valid |-> TRUE, day |-> day, ms |-> ms]

Pad2(n) == IF n < 10 THEN "0" \o ToString(n) ELSE ToString(n)

\* the days and the minutes of the day that the model's strings can denote:
\* a week of January, and days in and out of daylight time, among them the
\* two days on which the zone changes its offset
DateUniverse ==
  {DaysFromCivil(2025, 1, d) : d \in 6..12}
    \cup {DaysFromCivil(2025, 3, 9), DaysFromCivil(2025, 3, 10),
          DaysFromCivil(2025, 4, 25), DaysFromCivil(2025, 8, 18),
          DaysFromCivil(2025, 11, 2), DaysFromCivil(2025, 12, 5)}
ClockUniverse == {h * 60 + m : h \in {9, 14, 15}, m \in {0, 30, 50}}

\* toFormat("MM/dd/yyyy") of a day
FormatDate(z) ==
  LET c == CivilFromDays(z) IN
  Pad2(c.month) \o "/" \o Pad2(c.day) \o "/" \o ToString(c.year)

\* toFormat("hh:mma") of a minute of the day
FormatClock(min) ==
  LET h == min \div 60
      h12 == IF h % 12 = 0 THEN 12 ELSE h % 12
  IN Pad2(h12) \o ":" \o Pad2(min % 60) \o (IF h < 12 THEN "AM" ELSE "PM")

DateStrOf == [z \in DateUniverse |-> FormatDate(z)]
ClockStrOf == [c \in ClockUniverse |-> FormatClock(c)]

\* DateTime.fromFormat(s, "MM/dd/yyyy", {zone}): midnight of the day whose
\* rendering is s; invalid when s renders no day
FromFormatDate(s) ==
  IF \E z \in DateUniverse : DateStrOf[z] = s
  THEN DT(CHOOSE z \in DateUniverse : DateStrOf[z] = s, 0)
  ELSE Invalid

\* DateTime.fromFormat(`${d} ${t}`, "MM/dd/yyyy hh:mma", {zone})
FromFormatDateClock(d, t) ==
  IF /\ \E z \in DateUniverse : DateStrOf[z] = d
     /\ \E c \in ClockUniverse : ClockStrOf[c] = t
  THEN DT(CHOOSE z \in DateUniverse : DateStrOf[z] = d,
          (CHOOSE c \in ClockUniverse : ClockStrOf[c] = t) * MsPerMinute)
  ELSE Invalid

\* dt.plus({days: n}): the same wall clock n calendar days later
PlusDays(dt, n) == IF dt.valid THEN DT(dt.day + n, dt.ms) ELSE dt

\* dt.minus({milliseconds: n}), n at most a day; the zone has no transition
\* in the last hours of a day, so the wall clock moves back by n as well
MinusMillis(dt, n) ==
  IF ~dt.valid THEN dt
  ELSE IF dt.ms >= n THEN DT(dt.day, dt.ms - n)
  ELSE DT(dt.day - 1, dt.ms + MsPerDay - n)

\* dt.startOf("day")
StartOfDay(dt) == IF dt.valid THEN DT(dt.day, 0) ELSE dt

\* a.diff(b, "days").days for two midnights: whole calendar days
DiffDays(a, b) == a.day - b.day

\* dt.toUTC(): the reading of a UTC clock at the same instant
ToUTC(dt) ==
  LET ms == dt.ms + OffsetHours(dt.day, dt.ms) * MsPerHour IN
  IF ~dt.valid THEN dt
  ELSE IF ms >= MsPerDay THEN DT(dt.day + 1, ms - MsPerDay)
  ELSE DT(dt.day, ms)

\* Number(cell) and the fields of an invalid DateTime: NaN, modelled as a
\* negative number that nothing else denotes
NaN == 0 - 1000000

\* [year, month, day, hour, minute] of a reading
Components(dt) ==
  LET c == CivilFromDays(dt.day) IN
  IF ~dt.valid THEN <<NaN, NaN, NaN, NaN, NaN>>
  ELSE <<c.year, c.month, c.day, dt.ms \div MsPerHour,
         (dt.ms \div MsPerMinute) % 60>>

\* dt.toFormat("yyyyMMdd'T'HHmmss'Z'")
FormatBasic(dt) ==
  LET c == CivilFromDays(dt.day) IN
  IF ~dt.valid THEN "Invalid DateTime"
  ELSE ToString(c.year) \o Pad2(c.month) \o Pad2(c.day) \o "T"
         \o Pad2(dt.ms \div MsPerHour) \o Pad2((dt.ms \div MsPerMinute) % 60)
         \o Pad2((dt.ms \div 1000) % 60) \o "Z"

\* a <= b as instants, for two valid readings of the zone's wall clock
NotAfter(a, b) ==
  LET ua == ToUTC(a)
      ub == ToUTC(b)
  IN ua.day < ub.day \/ (ua.day = ub.day /\ ua.ms <= ub.ms)


(***************************************************************************)
(* Token classes read by the program's regular expressions.                *)
(***************************************************************************)
NumberTokens == {"1", "3", "101", "1443", "12345", "23456"}
NumberUniverse == {1, 3, 101, 1443, 12345, 23456}

\* tokens of the shape \d{2}\/\d{2}\/\d{4}: the renderings of the days of
\* DateUniverse, and "02/30/2025", which names no day
DateShapedTokens ==
  {"01/06/2025", "01/07/2025", "01/08/2025", "01/09/2025", "01/10/2025",
   "01/11/2025", "01/12/2025", "03/09/2025", "03/10/2025", "04/25/2025",
   "08/18/2025", "11/02/2025", "12/05/2025", "02/30/2025"}

\* tokens of the shape \d{1,2}:\d{2}
ClockTokens == {"09:00", "09:50", "02:00", "03:30", "9:00", "9:50"}

MeridiemTokens == {"AM", "PM", "am", "pm"}

StartsWithDigit(tok) ==
  tok \in NumberTokens \cup DateShapedTokens \cup ClockTokens

NumberOf(cell) ==
  IF \E n \in NumberUniverse : ToString(n) = Str(cell)
  THEN CHOOSE n \in NumberUniverse : ToString(n) = Str(cell)
  ELSE NaN

TitleCell == <<"Title">>
TotalHoursCell == <<"Total", " ", "Hours">>

(***************************************************************************)
(* split3, dayToByday, dayToNumber, alignToFirstMatchingWeekday            *)
(***************************************************************************)
\* split3 with the middle and last parts exchanged
split3LastSecond(str, sep) ==
  LET parts == Split(str, sep) IN
  IF Len(parts) < 3 THEN <<>>
  ELSE <<parts[1],
         parts[Len(parts)],
         Join(SubSeq(parts, 2, Len(parts) - 1), <<sep>>)>>

\* split3(str, sep): <<>> stands for the thrown Error
split3(str, sep) ==
  LET parts == Split(str, sep) IN
  IF Len(parts) < 3 THEN <<>>
  ELSE <<parts[1],
         Join(SubSeq(parts, 2, Len(parts) - 1), <<sep>>),
         parts[Len(parts)]>>

DayNames ==
  {"Sunday", "Monday", "Tuesday", "Wednesday", "Thursday", "Friday", "Saturday"}

dayToByday(d) ==
  CASE d = "Sunday" -> "SU"
    [] d = "Monday" -> "MO"
    [] d = "Tuesday" -> "TU"
    [] d = "Wednesday" -> "WE"
    [] d = "Thursday" -> "TH"
    [] d = "Friday" -> "FR"
    [] d = "Saturday" -> "SA"

dayToNumber(d) ==
  CASE d = "Monday" -> 1
    [] d = "Tuesday" -> 2
    [] d = "Wednesday" -> 3
    [] d = "Thursday" -> 4
    [] d = "Friday" -> 5
    [] d = "Saturday" -> 6
    [] d = "Sunday" -> 7

\* the loop stopped after its first target
MinDeltaFirstTarget(weekday, targets, minDelta) ==
  IF targets = <<>> THEN minDelta ELSE (targets[1] - weekday + 7) % 7

\* the loop of alignToFirstMatchingWeekday over targetWeekdays: the least
\* delta, or 7 (standing for POSITIVE_INFINITY) when there is no target
RECURSIVE MinDeltaFrom(_, _, _)
MinDeltaFrom(weekday, targets, minDelta) ==
  IF targets = <<>> THEN minDelta
  ELSE LET delta == (targets[1] - weekday + 7) % 7 IN
       MinDeltaFrom(weekday, Tail(targets),
                    IF delta < minDelta THEN delta ELSE minDelta)

TargetWeekdays(days) ==
  MapSeq(SelectSeq(days, LAMBDA d : d \in DayNames), dayToNumber)

MinDelta(weekday, days) == MinDeltaFrom(weekday, TargetWeekdays(days), 7)

alignToFirstMatchingWeekday(startLocal, days) ==
  IF days = <<>> THEN startLocal
  ELSE IF ~startLocal.valid THEN startLocal
  ELSE LET minDelta == MinDelta(WeekdayOfDay(startLocal.day), days) IN
       IF minDelta = 7 THEN Invalid ELSE PlusDays(startLocal, minDelta)


(***************************************************************************)
(* The Course / Meeting assembler: the body of handleExtractPDF after the  *)
(* table body is cut out.  Its local variables form the record             *)
(*   [baseCourse, pendingMeeting, currentDateStrings, parsedCourses].      *)
(***************************************************************************)
EmptyMeeting ==
  [day |-> None, timeStrings |-> None, campus |-> None, location |-> None,
   room |-> None, dateStrings |-> None]

\* { ...pendingMeeting }: the fields of the pending Meeting, none when null
Spread(pendingMeeting) ==
  IF IsSome(pendingMeeting) THEN Get(pendingMeeting) ELSE EmptyMeeting

AsmInit ==
  [baseCourse |-> None, pendingMeeting |-> None,
   currentDateStrings |-> <<>>, parsedCourses |-> <<>>]

\* dateRangeRegex.test(text)
dateRangeRegex(text) ==
  \E i \in 1..Len(text) :
     /\ text[i] \in DateShapedTokens
     /\ LET j == SkipSpaces(text, i + 1) IN
        /\ j <= Len(text)
        /\ text[j] = "-"
        /\ LET k == SkipSpaces(text, j + 1) IN
           k <= Len(text) /\ text[k] \in DateShapedTokens

isDayRow(text) ==
  LET days == MapSeq(Split(text, ","), Trim) IN
  \A i \in 1..Len(days) : Len(days[i]) = 1 /\ days[i][1] \in DayNames

\* /:\s*\d{2}\s*[AP]M/i.test(text)
isTimeRow(text) ==
  \E i \in 1..Len(text) :
     /\ text[i] \in ClockTokens
     /\ LET j == SkipSpaces(text, i + 1) IN
        j <= Len(text) /\ text[j] \in MeridiemTokens

\* /,\s*\d+/.test(text)
hasRoomNumber(text) ==
  \E i \in 1..Len(text) :
     /\ text[i] = ","
     /\ LET j == SkipSpaces(text, i + 1) IN
        j <= Len(text) /\ StartsWithDigit(text[j])

\* the dateStrings finalizeMeeting resolves the Meeting m with
ChosenDateStrings(m, currentDateStrings) ==
  IF IsSome(m.dateStrings) /\ Len(Get(m.dateStrings)) >= 2
  THEN Get(m.dateStrings)
  ELSE IF Len(currentDateStrings) >= 2 THEN currentDateStrings
  ELSE <<>>

\* the Course finalizeMeeting pushes for Meeting m of course base
ResolveMeeting(base, m, dateStrings) ==
  LET startStr == Get(m.timeStrings)[1]
      endStr == IF Len(Get(m.timeStrings)) >= 2
                THEN Get(m.timeStrings)[2] ELSE "undefined"
      startLocal == FromFormatDateClock(dateStrings[1], startStr)
      endLocal == FromFormatDateClock(dateStrings[1], endStr)
      until == MinusMillis(PlusDays(FromFormatDate(dateStrings[2]), 1), 1)
      alignedStart == alignToFirstMatchingWeekday(startLocal, Get(m.day))
      diffDays == DiffDays(StartOfDay(alignedStart), StartOfDay(startLocal))
  IN [crn |-> base.crn, title |-> base.title, details |-> base.details,
      day |-> m.day,
      start |-> Some(PlusDays(startLocal, diffDays)),
      end |-> Some(PlusDays(endLocal, diffDays)),
      until |-> Some(until),
      campus |-> m.campus, location |-> m.location, room |-> m.room]

\* whether finalizeMeeting pushes a Course in assembler state st
Emits(st) ==
  /\ IsSome(st.baseCourse)
  /\ IsSome(st.pendingMeeting)
  /\ IsSome(Get(st.pendingMeeting).day)
  /\ IsSome(Get(st.pendingMeeting).timeStrings)
  /\ Len(ChosenDateStrings(Get(st.pendingMeeting), st.currentDateStrings)) >= 2

finalizeMeeting(st) ==
  IF ~Emits(st) THEN st
  ELSE LET m == Get(st.pendingMeeting)
           dateStrings == ChosenDateStrings(m, st.currentDateStrings)
       IN [st EXCEPT
             !.parsedCourses =
                Append(@, ResolveMeeting(Get(st.baseCourse), m, dateStrings)),
             !.pendingMeeting = None]

IsHeaderRow(row) == Len(row) \in {5, 6} /\ row[1] # TitleCell

\* text.split("-", 2).map((s) => s.trim())
DateStringsOf(text) == MapSeq(MapSeq(Split2(text, "-"), Trim), Str)

HeaderStep(st, row) ==
  LET row4 == IF Len(row) = 6 THEN row[5] \o row[6] ELSE row[5]
      fin == finalizeMeeting(st)
  IN [fin EXCEPT
        !.baseCourse = Some([crn |-> NumberOf(row[4]), title |-> Str(row[1]),
                             details |-> Str(row[2])]),
        !.pendingMeeting = None,
        !.currentDateStrings = DateStringsOf(row4)]

\* a date-range row that updates the carried strings before finalizing
DateRangeStepEarly(st, text) ==
  LET ds == DateStringsOf(text)
      fin == finalizeMeeting([st EXCEPT !.currentDateStrings = ds])
  IN [fin EXCEPT
        !.pendingMeeting =
           Some([Spread(fin.pendingMeeting) EXCEPT !.dateStrings = Some(ds)])]

DateRangeStep(st, text) ==
  LET fin == finalizeMeeting(st)
      ds == DateStringsOf(text)
  IN [fin EXCEPT
        !.currentDateStrings = ds,
        !.pendingMeeting =
           Some([Spread(fin.pendingMeeting) EXCEPT !.dateStrings = Some(ds)])]

\* a day row that replaces the day-set without finalizing first
DayStepOverwrite(st, text) ==
  [st EXCEPT
     !.pendingMeeting =
        Some([Spread(st.pendingMeeting) EXCEPT
                !.day = Some(MapSeq(MapSeq(Split(text, ","), Trim), Str))])]

DayStep(st, text) ==
  LET pm == st.pendingMeeting
      fin == IF IsSome(pm) /\ IsSome(Get(pm).day) /\ IsSome(Get(pm).timeStrings)
             THEN finalizeMeeting(st) ELSE st
  IN [fin EXCEPT
        !.pendingMeeting =
           Some([Spread(fin.pendingMeeting) EXCEPT
                   !.day = Some(MapSeq(MapSeq(Split(text, ","), Trim), Str))])]

TimeStep(st, text) ==
  LET timeStrings == MapSeq(MapSeq(Split2(RemoveSpaces(text), "-"), Trim), Str)
  IN [st EXCEPT
        !.pendingMeeting =
           Some([Spread(st.pendingMeeting) EXCEPT
                   !.timeStrings = Some(timeStrings)])]

\* !pendingMeeting?.room
RoomUnset(pendingMeeting) ==
  \/ ~IsSome(pendingMeeting)
  \/ ~IsSome(Get(pendingMeeting).room)
  \/ Get(Get(pendingMeeting).room) = ""

\* the two nested conditions of the location branch
IsLocationRow(st, row, text) ==
  /\ Len(row) = 1 /\ Includes(text, ",") /\ RoomUnset(st.pendingMeeting)
  /\ Includes(text, "*") \/ hasRoomNumber(text)

LocationStep(st, text) ==
  LET parts == split3(text, ",")
      draft == Spread(st.pendingMeeting)
  IN IF parts = <<>>
     THEN [st EXCEPT
             !.pendingMeeting =
                Some([draft EXCEPT !.location = Some(Str(text))])]
     ELSE [st EXCEPT
             !.pendingMeeting =
                Some([draft EXCEPT
                        !.campus = Some(Str(Trim(parts[1]))),
                        !.location = Some(Str(Trim(parts[2]))),
                        !.room = Some(Str(Trim(parts[3])))])]

\* row.join(" ").trim()
RowText(row) == Trim(Join(row, <<" ">>))

\* the classes with the time test ahead of the date-range test
RowClassTimeFirst(st, row) ==
  LET text == RowText(row) IN
  IF IsHeaderRow(row) THEN "Header"
  ELSE IF text = <<>> THEN "Empty"
  ELSE IF isTimeRow(text) THEN "Time"
  ELSE IF dateRangeRegex(text) THEN "DateRange"
  ELSE IF isDayRow(text) THEN "Day"
  ELSE IF IsLocationRow(st, row, text) THEN "Location"
  ELSE "Unrecognized"

\* the class the row loop handles a body row as
RowClass(st, row) ==
  LET text == RowText(row) IN
  IF IsHeaderRow(row) THEN "Header"
  ELSE IF text = <<>> THEN "Empty"
  ELSE IF dateRangeRegex(text) THEN "DateRange"
  ELSE IF isDayRow(text) THEN "Day"
  ELSE IF isTimeRow(text) THEN "Time"
  ELSE IF IsLocationRow(st, row, text) THEN "Location"
  ELSE "Unrecognized"

\* one iteration of for (const row of validRows)
RowStep(st, row) ==
  LET text == RowText(row)
      class == RowClass(st, row)
  IN CASE class = "Header" -> HeaderStep(st, row)
       [] class = "DateRange" -> DateRangeStep(st, text)
       [] class = "Day" -> DayStep(st, text)
       [] class = "Time" -> TimeStep(st, text)
       [] class = "Location" -> LocationStep(st, text)
       [] OTHER -> st

RECURSIVE RowLoop(_, _)
RowLoop(st, rows) ==
  IF rows = <<>> THEN st ELSE RowLoop(RowStep(st, rows[1]), Tail(rows))

\* parsedCourses at setCourses(parsedCourses)
Assemble(validRows) == finalizeMeeting(RowLoop(AsmInit, validRows)).parsedCourses


(***************************************************************************)
(* The layout reconstructor: the page loop of handleExtractPDF.  An item   *)
(* of a page's text content is [isText, str, x, y4]: y4 is the baseline y  *)
(* (transform[5]) in quarters of a unit, x is transform[4].                *)
(***************************************************************************)
\* Math.floor of y4 / 4
MathFloor(y4) == y4 \div 4

\* Math.round of y4 / 4: halves round up
MathRound(y4) == (y4 + 2) \div 4

\* rowsMap[y], in the order the items were pushed
GroupOf(items, y) ==
  SelectSeq(items, LAMBDA it : it.isText /\ MathRound(it.y4) = y)

\* Object.keys(rowsMap).map(Number)
RowKeys(items) ==
  {MathRound(items[i].y4) : i \in {j \in 1..Len(items) : items[j].isText}}

\* the row keys sorted the other way
RECURSIVE SortAscending(_)
SortAscending(keys) ==
  IF keys = {} THEN <<>>
  ELSE LET low == CHOOSE k \in keys : \A o \in keys : k <= o IN
       <<low>> \o SortAscending(keys \ {low})

\* .sort((a, b) => b - a)
RECURSIVE SortDescending(_)
SortDescending(keys) ==
  IF keys = {} THEN <<>>
  ELSE LET top == CHOOSE k \in keys : \A o \in keys : o <= k IN
       <<top>> \o SortDescending(keys \ {top})

\* .sort((a, b) => a.x - b.x): a stable sort, by insertion
RECURSIVE InsertByX(_, _)
InsertByX(sorted, it) ==
  IF sorted = <<>> THEN <<it>>
  ELSE IF sorted[Len(sorted)].x <= it.x THEN Append(sorted, it)
  ELSE Append(InsertByX(SubSeq(sorted, 1, Len(sorted) - 1), it),
              sorted[Len(sorted)])

RECURSIVE SortByX(_)
SortByX(cells) ==
  IF cells = <<>> THEN <<>>
  ELSE InsertByX(SortByX(SubSeq(cells, 1, Len(cells) - 1)), cells[Len(cells)])

\* the rows of one page with their geometry: [y, cells], a cell
\* [x, str, y4], str trimmed; empty cells and empty rows are dropped
PageGroups(items) ==
  LET keys == SortDescending(RowKeys(items))
      rowAt(y) ==
        LET sorted == SortByX(GroupOf(items, y))
            trimmed == [i \in 1..Len(sorted) |->
                          [x |-> sorted[i].x, str |-> Trim(sorted[i].str),
                           y4 |-> sorted[i].y4]]
        IN [y |-> y, cells |-> SelectSeq(trimmed, LAMBDA c : c.str # <<>>)]
      groups == [i \in 1..Len(keys) |-> rowAt(keys[i])]
  IN SelectSeq(groups, LAMBDA g : g.cells # <<>>)

\* what one page pushes to allRows
PageRows(items) ==
  LET groups == PageGroups(items) IN
  [i \in 1..Len(groups) |->
     [j \in 1..Len(groups[i].cells) |-> groups[i].cells[j].str]]

(***************************************************************************)
(* The rest of handleExtractPDF, run in one piece once the last page's     *)
(* text has arrived: boundary rows, filename, table body, assembler.       *)
(***************************************************************************)
\* allRows.findIndex((row) => row[0] === cell), 0 when there is none
FindIndex(allRows, cell) ==
  IF \E i \in 1..Len(allRows) : allRows[i][1] = cell
  THEN CHOOSE i \in 1..Len(allRows) :
         /\ allRows[i][1] = cell
         /\ \A j \in 1..(i - 1) : allRows[j][1] # cell
  ELSE 0

headIdx(allRows) == FindIndex(allRows, TitleCell)
tailIdx(allRows) == FindIndex(allRows, TotalHoursCell)

\* the boundary check without its comparison of the two indices
StructuralAbsenceUnordered(allRows) ==
  headIdx(allRows) = 0 \/ tailIdx(allRows) = 0

\* headIdx == -1 || tailIdx == -1 || tailIdx <= headIdx
StructuralAbsence(allRows) ==
  headIdx(allRows) = 0 \/ tailIdx(allRows) = 0 \/ tailIdx(allRows) <= headIdx(allRows)

ScheduleTokens == {"Schedule", "schedule", "SCHEDULE"}

\* /Schedule$/i.test(line)
EndsWithSchedule(line) == line # <<>> /\ line[Len(line)] \in ScheduleTokens

\* the line setFilename is called with: the nearest row above the header
\* whose first cell ends with "Schedule"; None when the loop finds none
ScheduleLine(allRows) ==
  LET above == {i \in 1..(headIdx(allRows) - 1) : EndsWithSchedule(allRows[i][1])}
  IN IF above = {} THEN None
     ELSE Some(Str(allRows[CHOOSE i \in above : \A j \in above : j <= i][1]))

validRows(allRows) == SubSeq(allRows, headIdx(allRows) + 1, tailIdx(allRows) - 1)

\* the filename after the parse of allRows, given the one before
FilenameAfter(allRows, before) ==
  IF StructuralAbsence(allRows) THEN before
  ELSE IF IsSome(ScheduleLine(allRows)) THEN Get(ScheduleLine(allRows))
  ELSE before

\* whether the parse of allRows reaches setCourses
ReachesSetCourses(allRows) ==
  ~StructuralAbsence(allRows) /\ validRows(allRows) # <<>>

\* setCourses adding to the list instead of replacing it
CoursesAfterAppending(allRows, before) ==
  IF ReachesSetCourses(allRows)
  THEN before \o Assemble(validRows(allRows)) ELSE before

\* the course list after the parse of allRows, given the one before
CoursesAfter(allRows, before) ==
  IF ReachesSetCourses(allRows) THEN Assemble(validRows(allRows)) ELSE before


(***************************************************************************)
(* The event builder: handleDownload.                                      *)
(***************************************************************************)
toICSArrayLocal(dt) == Components(dt)

toICSArrayUTC(dt) == Components(ToUTC(dt))

\* the until stamp rendered without the conversion to UTC
toRRuleUntilLocal(dt) == FormatBasic(dt)

toRRuleUntilUTC(dt) == FormatBasic(ToUTC(dt))

\* course.day.map((day) => dayToByday[day]).join(",")
RECURSIVE JoinStrings(_, _)
JoinStrings(strs, sep) ==
  IF strs = <<>> THEN ""
  ELSE IF Len(strs) = 1 THEN strs[1]
  ELSE strs[1] \o sep \o JoinStrings(Tail(strs), sep)

ByDayCode(d) == IF d \in DayNames THEN dayToByday(d) ELSE ""

\* the codes of the days put in the order of the week
byDaysWeekOrdered(day) ==
  JoinStrings(MapSeq(SelectSeq(<<"Monday", "Tuesday", "Wednesday", "Thursday",
                                 "Friday", "Saturday", "Sunday">>,
                               LAMBDA d : \E i \in 1..Len(day) : day[i] = d),
                     ByDayCode), ",")

byDays(day) == JoinStrings(MapSeq(day, ByDayCode), ",")

rruleString(course) ==
  "FREQ=WEEKLY;BYDAY=" \o byDays(Get(course.day)) \o ";INTERVAL=1;UNTIL="
    \o toRRuleUntilUTC(Get(course.until))

\* Boolean(field) for an optional string
Truthy(o) == IsSome(o) /\ Get(o) # ""

\* [course.location, course.room].filter(Boolean).join(", ") || undefined
EventLocation(course) ==
  LET kept == SelectSeq(<<course.location, course.room>>, Truthy)
      joined == JoinStrings(MapSeq(kept, Get), ", ")
  IN IF joined = "" THEN None ELSE Some(joined)

\* the exclusion test extended to Courses without a location
LacksTemporalOrPlace(course) ==
  ~IsSome(course.day) \/ ~IsSome(course.start) \/ ~IsSome(course.end)
    \/ ~IsSome(course.until) \/ ~IsSome(course.location)

\* !course.day || !course.start || !course.end || !course.until
LacksTemporal(course) ==
  ~IsSome(course.day) \/ ~IsSome(course.start) \/ ~IsSome(course.end)
    \/ ~IsSome(course.until)

\* the event of a course that has its temporal fields
EventOf(course) ==
  [title |-> course.details,
   description |-> course.title,
   start |-> toICSArrayLocal(Get(course.start)),
   startInputType |-> "local", startOutputType |-> "local",
   end |-> toICSArrayLocal(Get(course.end)),
   endInputType |-> "local", endOutputType |-> "local",
   location |-> EventLocation(course),
   recurrenceRule |-> rruleString(course),
   transp |-> "OPAQUE"]

\* selectedCourses.map(...).filter((e) => e !== null)
Events(selected) ==
  MapSeq(SelectSeq(selected, LAMBDA c : ~LacksTemporal(c)), EventOf)

\* filename || "Schedule"
CalName(name) == IF name = "" THEN "Schedule" ELSE name

(***************************************************************************)
(* The DataTable's selection.  Rows are numbered from 1 here (row ids are  *)
(* the indices 0, 1, ... of data in the program).                          *)
(***************************************************************************)
\* enableRowSelection / hasTimeAndDay
CanSelect(course) ==
  /\ IsSome(course.day) /\ Get(course.day) # <<>>
  /\ IsSome(course.start) /\ IsSome(course.end)

RECURSIVE Ascending(_)
Ascending(set) ==
  IF set = {} THEN <<>>
  ELSE LET low == CHOOSE k \in set : \A o \in set : k <= o IN
       <<low>> \o Ascending(set \ {low})

\* Object.keys(newSelection).filter(...).map((i) => data[parseInt(i)])
\*   .filter(Boolean)
SelectedOf(newSelection, data) ==
  LET ids == Ascending({i \in newSelection : i <= Len(data)}) IN
  [k \in 1..Len(ids) |-> data[ids[k]]]

initialData ==
  <<[crn |-> 0 - 1, title |-> "Please upload a schedule", details |-> "-",
     day |-> None, start |-> None, end |-> None, until |-> None,
     campus |-> None, location |-> None, room |-> None]>>


(***************************************************************************)
(* Documents submitted to the App in Spec.  A line of a page is given by   *)
(* its baseline and its cells; cell i of a line sits at x = 10 * i.        *)
(***************************************************************************)
Item(str, x, y4) == [isText |-> TRUE, str |-> str, x |-> x, y4 |-> y4]

\* a marked-content item: it has no str
Marked == [isText |-> FALSE, str |-> <<>>, x |-> 0, y4 |-> 0]

LineItems(y4, cells) == [i \in 1..Len(cells) |-> Item(cells[i], 10 * i, y4)]

cTableHead == <<TitleCell, <<"Details">>, <<"Hours">>, <<"CRN">>, <<"Dates">>>>
cTableFoot == <<TotalHoursCell, <<"3">>>>
cSpringSchedule == <<"Spring", " ", "Schedule">>
cFallSchedule == <<"Fall", " ", "Schedule">>
cSummerSchedule == <<"Summer", " ", "schedule">>
cSpringRange == <<"01/06/2025", " ", "-", " ", "04/25/2025">>
cLateRange == <<"03/10/2025", " ", "-", " ", "04/25/2025">>

rowIntro ==
  <<<<"Intro", " ", "to", " ", "X">>, <<"Lecture">>, <<"3">>, <<"12345">>,
    cSpringRange>>
\* a header row whose date range was wrapped into two fragments
rowAlgo ==
  <<<<"Algorithms">>, <<"Lecture">>, <<"3">>, <<"23456">>,
    <<"08/18/2025", " ", "-">>, <<"12/05/2025">>>>
rowDayMW == <<<<"Monday", ",", " ", "Wednesday">>>>
rowDayTR == <<<<"Tuesday", ",">>, <<"Thursday">>>>
rowDayF == <<<<"Friday">>>>
rowTime9 == <<<<"09:00", " ", "AM", " ", "-", " ", "09:50", " ", "AM">>>>
rowTime2 == <<<<"02:00", " ", "PM", " ", "-">>, <<"03:30", " ", "PM">>>>
rowLocKlaus ==
  <<<<"Georgia", " ", "Tech", "-", "Atlanta", " ", "*", ",", " ", "Klaus",
      ",", " ", "1443">>>>
rowLocMain ==
  <<<<"Main", " ", "Campus", ",", " ", "Bldg", " ", "1", ",", " ", "Room",
      " ", "101">>>>
rowName == <<<<"Smith", ",", " ", "John">>>>
rowLateRange == <<cLateRange>>

\* one page, one course; the items of the time row come right to left and
\* the two halves of the day row differ by a quarter unit in baseline
DocSpring ==
  <<LineItems(2900, <<cSpringSchedule>>)
      \o LineItems(2800, cTableHead)
      \o LineItems(2700, rowIntro)
      \o <<Marked>>
      \o <<Item(<<" ", "Wednesday">>, 20, 2601), Item(<<"Monday", ",">>, 10, 2600)>>
      \o LineItems(2500, rowTime9)
      \o LineItems(2400, rowLocKlaus)
      \o LineItems(2300, rowName)
      \o LineItems(2200, cTableFoot)>>

\* two pages, two courses; the location row of the first has neither an
\* asterisk nor a comma followed by a digit
DocFall ==
  <<LineItems(2900, <<cFallSchedule>>)
      \o LineItems(2800, cTableHead)
      \o LineItems(2700, rowAlgo)
      \o LineItems(2600, rowDayTR)
      \o LineItems(2500, rowTime2),
    LineItems(2900, rowLocMain)
      \o LineItems(2800, rowIntro)
      \o LineItems(2700, rowDayF)
      \o LineItems(2600, rowTime9)
      \o LineItems(2500, cTableFoot)>>

DocNoHeader ==
  <<LineItems(2900, <<cFallSchedule>>)
      \o LineItems(2700, rowIntro)
      \o LineItems(2600, rowDayMW)
      \o LineItems(2500, rowTime9)
      \o LineItems(2200, cTableFoot)>>

DocNoFooter ==
  <<LineItems(2900, <<cFallSchedule>>)
      \o LineItems(2800, cTableHead)
      \o LineItems(2700, rowIntro)
      \o LineItems(2600, rowDayMW)
      \o LineItems(2500, rowTime9)>>

DocFooterFirst ==
  <<LineItems(2900, <<cFallSchedule>>)
      \o LineItems(2850, cTableFoot)
      \o LineItems(2800, cTableHead)
      \o LineItems(2700, rowIntro)
      \o LineItems(2600, rowDayMW)
      \o LineItems(2500, rowTime9)>>

DocEmptyBody ==
  <<LineItems(2900, <<cSummerSchedule>>)
      \o LineItems(2800, cTableHead)
      \o LineItems(2700, cTableFoot)>>

Documents ==
  {DocSpring, DocFall, DocNoHeader, DocNoFooter, DocFooterFirst, DocEmptyBody}

(***************************************************************************)
(* State.                                                                  *)
(*   App component: courses, filename, selectedCourses (useState),         *)
(*     rowSelection (the DataTable's useState), parses (the calls of       *)
(*     handleExtractPDF that await page text, in submission order, each    *)
(*     with its document, the page awaited and its allRows; in SpecRace    *)
(*     also the history flag overtaken: a call made later has already set  *)
(*     the courses),                                                       *)
(*     effect (what the last step showed: an alert, a saved file, or the   *)
(*     rows logged by a parse that ran to its end).                        *)
(*   Assembler (SpecAssemble, SpecResolve): the locals of the row loop,    *)
(*     rowsRead (the body rows consumed so far) and asmDone.               *)
(*   Layout (SpecLayout): pageNo (pages read), itemsSeen, allRows, and     *)
(*     rowGeom, the page, rounded y, cell x's and cell baselines of each   *)
(*     row of allRows.                                                     *)
(***************************************************************************)
VARIABLES courses, filename, selectedCourses, rowSelection, parses, effect,
          baseCourse, pendingMeeting, currentDateStrings, parsedCourses,
          rowsRead, asmDone,
          pageNo, itemsSeen, allRows, rowGeom

appVars == <<courses, filename, selectedCourses, rowSelection, parses, effect>>
asmVars == <<baseCourse, pendingMeeting, currentDateStrings, parsedCourses,
             rowsRead, asmDone>>
layVars == <<pageNo, itemsSeen, allRows, rowGeom>>
vars == <<appVars, asmVars, layVars>>

\* what a handler shows of itself: the alert of handleDownload
\* ("alertSelect", "alertError"), the file it saves ("saved", with the
\* events given to ics.createEvents and the file's name), or the allRows
\* that handleExtractPDF logs to the console before its boundary check
\* ("parsed")
NoEffect == [kind |-> "none", events |-> <<>>, name |-> "", rows |-> <<>>]

AppIdle ==
  /\ courses = initialData
  /\ filename = ""
  /\ selectedCourses = <<>>
  /\ rowSelection = {}
  /\ parses = <<>>
  /\ effect = NoEffect

AsmIdle ==
  /\ baseCourse = None
  /\ pendingMeeting = None
  /\ currentDateStrings = <<>>
  /\ parsedCourses = <<>>
  /\ rowsRead = <<>>
  /\ asmDone = FALSE

LayIdle ==
  /\ pageNo = 0
  /\ itemsSeen = 0
  /\ allRows = <<>>
  /\ rowGeom = <<>>

(***************************************************************************)
(* Spec: the App under uploads, page arrivals, selection and download.     *)
(***************************************************************************)
RemoveAt(s, i) == SubSeq(s, 1, i - 1) \o SubSeq(s, i + 1, Len(s))

\* handleExtractPDF up to its first await of page text
Submit(doc) ==
  /\ Len(parses) < MaxInflight
  /\ parses' = Append(parses, [pages |-> doc, next |-> 1, allRows |-> <<>>])
  /\ effect' = NoEffect
  /\ UNCHANGED <<courses, filename, selectedCourses, rowSelection>>

\* history, kept for the parses that carry the flag overtaken (SpecRace):
\* the first n parses, submitted earlier than one that has just called
\* setCourses, are marked as overtaken
Overtake(ps, n) ==
  [k \in 1..Len(ps) |->
     IF k <= n /\ "overtaken" \in DOMAIN ps[k]
     THEN [ps[k] EXCEPT !.overtaken = TRUE] ELSE ps[k]]

\* allRows of parse p once the text of its awaited page has been pushed
RowsWithPage(p) == p.allRows \o PageRows(p.pages[p.next])

IsLastPage(p) == p.next = Len(p.pages)

\* parse i resumes with the text of its awaited page; after the last page
\* the handler runs to its end without another await
PageLoaded(i) ==
  /\ i \in 1..Len(parses)
  /\ LET p == parses[i]
         rows == RowsWithPage(p)
     IN IF ~IsLastPage(p)
        THEN /\ parses' = [parses EXCEPT ![i] = [p EXCEPT !.next = @ + 1,
                                                          !.allRows = rows]]
             /\ UNCHANGED <<courses, filename>>
             /\ effect' = NoEffect
        ELSE /\ parses' = IF ReachesSetCourses(rows)
                          THEN Overtake(RemoveAt(parses, i), i - 1)
                          ELSE RemoveAt(parses, i)
             /\ filename' = FilenameAfter(rows, filename)
             /\ courses' = CoursesAfter(rows, courses)
             /\ effect' = [NoEffect EXCEPT !.kind = "parsed", !.rows = rows]
  /\ UNCHANGED <<selectedCourses, rowSelection>>

\* the checkbox of row i: row.toggleSelected, then handleSelectionChange
ToggleRow(i) ==
  /\ i \in 1..Len(courses)
  /\ CanSelect(courses[i])
  /\ LET newSelection == IF i \in rowSelection THEN rowSelection \ {i}
                         ELSE rowSelection \cup {i}
     IN /\ rowSelection' = newSelection
        /\ selectedCourses' = SelectedOf(newSelection, courses)
  /\ effect' = NoEffect
  /\ UNCHANGED <<courses, filename, parses>>

\* getIsAllPageRowsSelected
AllSelected ==
  /\ \E i \in 1..Len(courses) : CanSelect(courses[i])
  /\ \A i \in 1..Len(courses) : CanSelect(courses[i]) => i \in rowSelection

\* the header checkbox: table.toggleAllPageRowsSelected(!!value), then
\* handleSelectionChange
ToggleAll ==
  /\ LET selectable == {i \in 1..Len(courses) : CanSelect(courses[i])}
         newSelection == IF AllSelected
                         THEN rowSelection \ (1..Len(courses))
                         ELSE rowSelection \cup selectable
     IN /\ rowSelection' = newSelection
        /\ selectedCourses' = SelectedOf(newSelection, courses)
  /\ effect' = NoEffect
  /\ UNCHANGED <<courses, filename, parses>>

\* handleDownload without its test of an empty selection
DownloadUnguarded(ok) ==
  /\ effect' =
       IF ok
       THEN [NoEffect EXCEPT !.kind = "saved",
                             !.events = Events(selectedCourses),
                             !.name = CalName(filename) \o ".ics"]
       ELSE [NoEffect EXCEPT !.kind = "alertError",
                             !.events = Events(selectedCourses)]
  /\ UNCHANGED <<courses, filename, selectedCourses, rowSelection, parses>>

\* handleDownload; ics.createEvents answers with a value (ok) or an error
Download(ok) ==
  /\ effect' =
       IF selectedCourses = <<>>
       THEN [NoEffect EXCEPT !.kind = "alertSelect"]
       ELSE IF ok
       THEN [NoEffect EXCEPT !.kind = "saved",
                             !.events = Events(selectedCourses),
                             !.name = CalName(filename) \o ".ics"]
       ELSE [NoEffect EXCEPT !.kind = "alertError",
                             !.events = Events(selectedCourses)]
  /\ UNCHANGED <<courses, filename, selectedCourses, rowSelection, parses>>

Init == AppIdle /\ AsmIdle /\ LayIdle

Others == UNCHANGED <<asmVars, layVars>>

Next ==
  \/ \E doc \in Documents : Submit(doc) /\ Others
  \/ \E i \in 1..MaxInflight : PageLoaded(i) /\ Others
  \/ \E i \in 1..Len(courses) : ToggleRow(i) /\ Others
  \/ ToggleAll /\ Others
  \/ \E ok \in BOOLEAN : Download(ok) /\ Others

Spec == Init /\ [][Next]_vars


(***************************************************************************)
(* SpecAssemble: the row loop on every table body of at most MaxRows rows  *)
(* drawn from BodyRows.  One step is one iteration of the loop; AsmFinish  *)
(* is the code after the loop.                                             *)
(***************************************************************************)
\* the course row of the specification's end-to-end example (its third
\* cell is empty)
rowSpecIntro ==
  <<<<"Intro", " ", "to", " ", "X">>, <<"Lecture">>, <<>>, <<"12345">>,
    cSpringRange>>
\* a course row whose date cell holds no range
rowNoRange ==
  <<<<"Thesis">>, <<"Research">>, <<"3">>, <<"23456">>, <<"TBA">>>>
rowTimeSpec == <<<<"9:00", " ", "AM", " ", "-", " ", "9:50", " ", "AM">>>>
rowTimeOnly == <<<<"02:00", " ", "PM">>>>
rowLocOnline == <<<<"Online", " ", "*", ",", " ", "TBA">>>>

BodyRows ==
  {rowSpecIntro, rowNoRange, rowDayMW, rowDayF, rowTimeSpec, rowTime9,
   rowTimeOnly, rowLocMain, rowLocKlaus, rowLocOnline, rowLateRange}

\* the locals of the row loop as one record, and back
AsmState ==
  [baseCourse |-> baseCourse, pendingMeeting |-> pendingMeeting,
   currentDateStrings |-> currentDateStrings, parsedCourses |-> parsedCourses]

SetAsmState(st) ==
  /\ baseCourse' = st.baseCourse
  /\ pendingMeeting' = st.pendingMeeting
  /\ currentDateStrings' = st.currentDateStrings
  /\ parsedCourses' = st.parsedCourses

\* one iteration of the row loop, on row
AsmRow(row) ==
  /\ ~asmDone
  /\ Len(rowsRead) < MaxRows
  /\ SetAsmState(RowStep(AsmState, row))
  /\ rowsRead' = Append(rowsRead, row)
  /\ UNCHANGED asmDone

\* after the loop: finalizeMeeting(); setCourses(parsedCourses)
AsmFinish ==
  /\ ~asmDone
  /\ SetAsmState(finalizeMeeting(AsmState))
  /\ asmDone' = TRUE
  /\ UNCHANGED rowsRead

InitAssemble == AppIdle /\ AsmIdle /\ LayIdle

NextAssemble ==
  \/ \E row \in BodyRows : AsmRow(row) /\ UNCHANGED <<appVars, layVars>>
  \/ AsmFinish /\ UNCHANGED <<appVars, layVars>>

SpecAssemble == InitAssemble /\ [][NextAssemble]_vars


(***************************************************************************)
(* SpecResolve: finalizeMeeting on a Meeting read from a course row, a day *)
(* row and a time row, for every first date, last date, day-set and time   *)
(* pair of the sets below.  It starts where the row loop stands after the  *)
(* three rows.                                                             *)
(***************************************************************************)
WeekOrder ==
  <<"Monday", "Tuesday", "Wednesday", "Thursday", "Friday", "Saturday",
    "Sunday">>

\* day-sets: every list of at most MaxDays names, and every non-empty set
\* of names listed in the order of the week
DaySets ==
  UNION {[1..n -> DayNames] : n \in 1..MaxDays}
    \cup {SelectSeq(WeekOrder, LAMBDA d : d \in S) : S \in SUBSET DayNames \ {{}}}

FirstDates ==
  {"01/06/2025", "01/07/2025", "01/08/2025", "01/09/2025", "01/10/2025",
   "01/11/2025", "01/12/2025", "08/18/2025"}
LastDates ==
  {"01/08/2025", "03/09/2025", "04/25/2025", "11/02/2025", "12/05/2025"}
\* a time row and the timeStrings the row loop keeps of it
TimeRows ==
  {[row |-> rowTime9, timeStrings |-> <<"09:00AM", "09:50AM">>],
   [row |-> rowTime2, timeStrings |-> <<"02:00PM", "03:30PM">>]}

CourseRowFor(first, last) ==
  <<<<"Intro", " ", "to", " ", "X">>, <<"Lecture">>, <<"3">>, <<"12345">>,
    <<first, " ", "-", " ", last>>>>

DayRowFor(days) ==
  <<Join([i \in 1..Len(days) |-> <<days[i]>>], <<",", " ">>)>>

\* the locals of the row loop after a course row, a day row and a time row
InitResolve ==
  /\ AppIdle /\ LayIdle
  /\ \E first \in FirstDates, last \in LastDates, days \in DaySets,
        time \in TimeRows :
       /\ rowsRead = <<CourseRowFor(first, last), DayRowFor(days), time.row>>
       /\ baseCourse =
            Some([crn |-> 12345, title |-> "Intro to X", details |-> "Lecture"])
       /\ pendingMeeting =
            Some([EmptyMeeting EXCEPT !.day = Some(days),
                                      !.timeStrings = Some(time.timeStrings)])
       /\ currentDateStrings = <<first, last>>
       /\ parsedCourses = <<>>
  /\ asmDone = FALSE

NextResolve == AsmFinish /\ UNCHANGED <<appVars, layVars>>

SpecResolve == InitResolve /\ [][NextResolve]_vars

(***************************************************************************)
(* SpecLayout: the page loop on every document of at most MaxPages pages   *)
(* and MaxItems items drawn from PageItems.                                *)
(***************************************************************************)
PageItems ==
  {Item(str, x, y4) : str \in {<<"a">>, <<" ", "b", " ">>},
                      x \in {1, 2}, y4 \in {1, 2, 5}}
    \cup {Item(<<" ">>, 1, 2), Item(<<" ">>, 2, 5), Marked}

PagesOf(n) == UNION {[1..k -> PageItems] : k \in 0..n}

GeomOf(items, page) ==
  LET groups == PageGroups(items) IN
  [i \in 1..Len(groups) |->
     [page |-> page, y |-> groups[i].y,
      xs |-> [j \in 1..Len(groups[i].cells) |-> groups[i].cells[j].x],
      y4s |-> [j \in 1..Len(groups[i].cells) |-> groups[i].cells[j].y4]]]

\* one iteration of the page loop, on the text content items of page
\* pageNo + 1
LoadPage(items) ==
  /\ pageNo < MaxPages
  /\ itemsSeen + Len(items) <= MaxItems
  /\ pageNo' = pageNo + 1
  /\ itemsSeen' = itemsSeen + Len(items)
  /\ allRows' = allRows \o PageRows(items)
  /\ rowGeom' = rowGeom \o GeomOf(items, pageNo + 1)

InitLayout == AppIdle /\ AsmIdle /\ LayIdle

NextLayout ==
  \E items \in PagesOf(MaxItems - itemsSeen) :
     LoadPage(items) /\ UNCHANGED <<appVars, asmVars>>

SpecLayout == InitLayout /\ [][NextLayout]_vars

(***************************************************************************)
(* SpecExport: handleDownload on every selection of at most MaxSel Courses *)
(* of type Course drawn from ExportCourses.  The DataTable lets the user   *)
(* select only Courses that have day, start and end; the handler itself    *)
(* takes any Course[] and is checked on all of them.                       *)
(***************************************************************************)
\* a Course as finalizeMeeting pushes it: the day z of its start, the
\* minutes of the day of its start and end, the day of its until
CourseOf(title, details, days, z, startMin, endMin, untilDay) ==
  [crn |-> 12345, title |-> title, details |-> details,
   day |-> Some(days),
   start |-> Some(DT(z, startMin * MsPerMinute)),
   end |-> Some(DT(z, endMin * MsPerMinute)),
   until |-> Some(DT(untilDay, MsPerDay - 1)),
   campus |-> Some("Georgia Tech-Atlanta *"), location |-> Some("Klaus"),
   room |-> Some("1443")]

\* Monday 01/06/2025 to 04/25/2025, 09:00 to 09:50
cMonWed ==
  CourseOf("Intro to X", "Lecture", <<"Monday", "Wednesday">>,
           20094, 540, 590, 20203)
\* the same first date, to 12/05/2025, 14:00 to 15:30, without a place
cWedMon ==
  [CourseOf("Algorithms", "Recitation", <<"Wednesday", "Monday">>,
            20094, 840, 930, 20427)
     EXCEPT !.campus = None, !.location = None, !.room = None]
\* Monday 08/18/2025 to 12/05/2025, without a room
cMonMon ==
  [CourseOf("Compilers", "Lab", <<"Monday", "Monday">>,
            20318, 540, 590, 20427)
     EXCEPT !.room = None]
\* first date Wednesday 01/08/2025, moved to Thursday, to 03/09/2025
cWeek ==
  CourseOf("Studio", "Seminar",
           <<"Sunday", "Tuesday", "Thursday", "Friday", "Saturday">>,
           20097, 840, 930, 20156)

ExportCourses ==
  {cMonWed, cWedMon, cMonMon, cWeek, initialData[1],
   [cMonWed EXCEPT !.day = None], [cMonWed EXCEPT !.start = None],
   [cMonWed EXCEPT !.end = None], [cMonWed EXCEPT !.until = None]}

InitExport ==
  /\ AsmIdle /\ LayIdle
  /\ courses = initialData
  /\ filename \in {"", "Spring Schedule"}
  /\ selectedCourses \in UNION {[1..n -> ExportCourses] : n \in 0..MaxSel}
  /\ rowSelection = {}
  /\ parses = <<>>
  /\ effect = NoEffect

NextExport == \E ok \in BOOLEAN : Download(ok) /\ Others

SpecExport == InitExport /\ [][NextExport]_vars

(***************************************************************************)
(* Properties.                                                             *)
(***************************************************************************)
Range(s) == {s[i] : i \in 1..Len(s)}

(***************************************************************************)
(* C1 (SpecAssemble): a block of one course row, one day row, one time row *)
(* and one three-part location row.                                        *)
(***************************************************************************)
DayRowsC1 == {rowDayMW, rowDayF}
TimeRowsC1 == {rowTimeSpec, rowTime9, rowTimeOnly}
\* location rows of three comma-delimited parts: rowLocKlaus has an
\* asterisk and a comma followed by digits, rowLocMain has neither
LocationRowsC1 == {rowLocKlaus, rowLocMain}

ExpectedDayC1(row) ==
  IF row = rowDayMW THEN <<"Monday", "Wednesday">> ELSE <<"Friday">>

ExpectedPartsC1(row) ==
  IF row = rowLocKlaus THEN <<"Georgia Tech-Atlanta *", "Klaus", "1443">>
  ELSE <<"Main Campus", "Bldg 1", "Room 101">>

\* the rows read are the course row of the specification's example and, in
\* any order, the day row d, the time row t and the location row l
OneMeetingBlock(d, t, l) ==
  /\ Len(rowsRead) = 4
  /\ rowsRead[1] = rowSpecIntro
  /\ {rowsRead[2], rowsRead[3], rowsRead[4]} = {d, t, l}

\* one Course with the course row's crn, the day row's names and a start
\* and an end
OneCourseOf(d) ==
  /\ Len(parsedCourses) = 1
  /\ parsedCourses[1].crn = 12345
  /\ parsedCourses[1].title = "Intro to X"
  /\ parsedCourses[1].details = "Lecture"
  /\ parsedCourses[1].day = Some(ExpectedDayC1(d))
  /\ IsSome(parsedCourses[1].start)
  /\ IsSome(parsedCourses[1].end)
  /\ IsSome(parsedCourses[1].until)

PlaceIs(parts) ==
  /\ parsedCourses[1].campus = Some(parts[1])
  /\ parsedCourses[1].location = Some(parts[2])
  /\ parsedCourses[1].room = Some(parts[3])

PlaceUnset ==
  /\ parsedCourses[1].campus = None
  /\ parsedCourses[1].location = None
  /\ parsedCourses[1].room = None

TitleRows(rows) == {i \in 1..Len(rows) : rows[i][1] = <<"Title">>}
TotalRows(rows) == {i \in 1..Len(rows) : rows[i][1] = <<"Total", " ", "Hours">>}
Least(S) == CHOOSE i \in S : \A j \in S : i <= j

\* no "Title" row, no "Total Hours" row, or the first "Total Hours" row not
\* below the first "Title" row
BoundaryAbsent(rows) ==
  \/ TitleRows(rows) = {}
  \/ TotalRows(rows) = {}
  \/ Least(TotalRows(rows)) <= Least(TitleRows(rows))

\* the rows between the two boundary rows
TableBody(rows) ==
  SubSeq(rows, Least(TitleRows(rows)) + 1, Least(TotalRows(rows)) - 1)

\* the Courses parsed from a document of the given rows
ParsedFrom(rows) ==
  IF BoundaryAbsent(rows) THEN <<>> ELSE Assemble(TableBody(rows))

\* C2 as stated: after a submitted document's parse has run to its end the
\* course list holds only Courses parsed from that document, for every
\* document and after any earlier submissions (the placeholder row of the
\* empty table is not counted against the statement).
CexC2 ==
  effect.kind = "parsed" =>
    \A k \in 1..Len(courses) :
       courses[k] \in Range(ParsedFrom(effect.rows)) \cup Range(initialData)

\* C2 amended: after the parse of a document that has a "Title" row, a
\* later "Total Hours" row and at least one row between them has run to its
\* end, the course list is exactly the list of Courses parsed from that
\* document, whatever was submitted before.
ThmC2 ==
  (effect.kind = "parsed" /\ ~BoundaryAbsent(effect.rows)
     /\ TableBody(effect.rows) # <<>>) =>
    /\ courses = ParsedFrom(effect.rows)
    /\ [k \in 1..Len(courses) |-> courses[k].crn] \in {<<12345>>, <<23456, 12345>>}

\* the parse of the two-page document has just replaced a list of which a
\* Course is still held as selected
WitC2 ==
  /\ effect.kind = "parsed"
  /\ Len(courses) = 2
  /\ courses[1].crn = 23456
  /\ Len(selectedCourses) = 1
  /\ selectedCourses[1].day = Some(<<"Monday", "Wednesday">>)

\* C3: when the "Title" row or the "Total Hours" row is missing, or the
\* "Total Hours" row is not below the "Title" row, the parse ends without
\* producing a Course: the course list and the filename are what they were
\* before it ended.
ThmC3 ==
  [][(effect'.kind = "parsed" /\ BoundaryAbsent(effect'.rows)) =>
       (courses' = courses /\ filename' = filename)]_vars

\* a document whose "Total Hours" row comes first has just been parsed
\* after the one-page document; list and filename are still the latter's
WitC3 ==
  /\ effect.kind = "parsed"
  /\ TitleRows(effect.rows) # {}
  /\ TotalRows(effect.rows) # {}
  /\ BoundaryAbsent(effect.rows)
  /\ filename = "Spring Schedule"
  /\ Len(courses) = 1
  /\ courses[1].crn = 12345

(***************************************************************************)
(* C4, C5 (SpecResolve): the Course resolved from a first date, a last     *)
(* date, a day-set and a time pair.                                        *)
(***************************************************************************)
\* ISO weekday of the first dates, Monday = 1
WeekdayOfDate(s) ==
  CASE s = "01/06/2025" -> 1
    [] s = "01/07/2025" -> 2
    [] s = "01/08/2025" -> 3
    [] s = "01/09/2025" -> 4
    [] s = "01/10/2025" -> 5
    [] s = "01/11/2025" -> 6
    [] s = "01/12/2025" -> 7
    [] s = "08/18/2025" -> 1

\* the day a date string names, in days since 1970-01-01
DayOfDate(s) ==
  CASE s = "01/06/2025" -> 20094
    [] s = "01/07/2025" -> 20095
    [] s = "01/08/2025" -> 20096
    [] s = "01/09/2025" -> 20097
    [] s = "01/10/2025" -> 20098
    [] s = "01/11/2025" -> 20099
    [] s = "01/12/2025" -> 20100
    [] s = "03/09/2025" -> 20156
    [] s = "04/25/2025" -> 20203
    [] s = "08/18/2025" -> 20318
    [] s = "11/02/2025" -> 20394
    [] s = "12/05/2025" -> 20427

WeekdayOfName(d) == CHOOSE k \in 1..7 : WeekOrder[k] = d

\* C4: the start is moved forward from the first date by the least, over
\* the names d of the day-set, of (number(d) - weekday + 7) mod 7; the
\* shift is between 0 and 6, the same for the end, it leaves the time of
\* day alone, the start then falls on a day of the day-set, and aligning
\* the start again moves it no further.  (The Meeting resolved is the one
\* the row loop holds after the rows read.)
ThmC4 ==
  /\ ~asmDone => AsmState = RowLoop(AsmInit, rowsRead)
  /\ asmDone =>
    /\ Len(parsedCourses) = 1
    /\ LET c == parsedCourses[1]
           D == Get(c.day)
           first == currentDateStrings[1]
           w == WeekdayOfDate(first)
           deltas == {(WeekdayOfName(D[i]) - w + 7) % 7 : i \in 1..Len(D)}
           start == Get(c.start)
           shift == start.day - DayOfDate(first)
       IN /\ start.valid
          /\ shift \in deltas
          /\ \A e \in deltas : shift <= e
          /\ shift \in 0..6
          /\ WeekOrder[((w - 1 + shift) % 7) + 1] \in Range(D)
          /\ Get(c.end).day - DayOfDate(first) = shift
          /\ start.ms \in {9 * MsPerHour, 14 * MsPerHour}
          /\ alignToFirstMatchingWeekday(start, D) = start

\* a Tuesday first date with the day-set Monday, Thursday: two days forward
WitC4 ==
  /\ asmDone
  /\ currentDateStrings[1] = "01/07/2025"
  /\ Len(parsedCourses) = 1
  /\ parsedCourses[1].day = Some(<<"Monday", "Thursday">>)
  /\ Get(parsedCourses[1].start).day = DayOfDate("01/09/2025")

\* the until stamp in UTC basic format, by last date
UntilTextOf(s) ==
  CASE s = "01/08/2025" -> "20250109T045959Z"
    [] s = "03/09/2025" -> "20250310T035959Z"
    [] s = "04/25/2025" -> "20250426T035959Z"
    [] s = "11/02/2025" -> "20251103T045959Z"
    [] s = "12/05/2025" -> "20251206T045959Z"

\* C5: the until of every emitted Course is the last instant of the end
\* date in the local zone (its midnight, plus one day, minus one
\* millisecond); rendered in UTC basic format it is the next day's
\* 03:59:59 at an offset of -4 and 04:59:59 at an offset of -5, so
\* 20250426T035959Z for a range ending 04/25/2025.
ThmC5 ==
  asmDone =>
    /\ Len(parsedCourses) = 1
    /\ LET last == currentDateStrings[2]
           until == Get(parsedCourses[1].until)
       IN /\ until = [valid |-> TRUE, day |-> DayOfDate(last),
                      ms |-> 24 * 60 * 60 * 1000 - 1]
          /\ toRRuleUntilUTC(until) = UntilTextOf(last)

WitC5 ==
  /\ asmDone
  /\ currentDateStrings[2] = "04/25/2025"
  /\ Len(parsedCourses) = 1
  /\ toRRuleUntilUTC(Get(parsedCourses[1].until)) = "20250426T035959Z"

(***************************************************************************)
(* C6, C7, C10 (SpecExport): what handleDownload gives the serializer and  *)
(* the user for a selection.                                               *)
(***************************************************************************)
HasFourFields(c) ==
  IsSome(c.day) /\ IsSome(c.start) /\ IsSome(c.end) /\ IsSome(c.until)

\* the selected Courses that have day, start, end and until, in selection
\* order
Exported == SelectSeq(selectedCourses, HasFourFields)

\* the serializer was called: the handler saved its value or reported its
\* error (and reported nothing else)
SerializerCalled == effect.kind \in {"saved", "alertError"}

\* C6: on Download with a non-empty selection the serializer is called with
\* exactly one event for every selected Course that has day, start, end and
\* until, in selection order, and with no event for a selected Course that
\* lacks one of the four; such a Course raises no error.
ThmC6 ==
  (effect.kind # "none" /\ selectedCourses # <<>>) =>
    /\ SerializerCalled
    /\ Len(effect.events) = Len(Exported)
    /\ \A k \in 1..Len(Exported) :
          /\ k <= Len(effect.events)
          /\ effect.events[k].description = Exported[k].title
          /\ effect.events[k].title = Exported[k].details

\* two Courses with the four fields around one without until: two events
WitC6 ==
  /\ effect.kind = "saved"
  /\ selectedCourses = <<cWedMon, [cMonWed EXCEPT !.until = None], cMonMon>>
  /\ Len(effect.events) = 2
  /\ effect.events[1].description = "Algorithms"
  /\ effect.events[2].description = "Compilers"

CodeOfDay(d) ==
  CASE d = "Sunday" -> "SU"
    [] d = "Monday" -> "MO"
    [] d = "Tuesday" -> "TU"
    [] d = "Wednesday" -> "WE"
    [] d = "Thursday" -> "TH"
    [] d = "Friday" -> "FR"
    [] d = "Saturday" -> "SA"

RECURSIVE CodesOf(_)
CodesOf(day) ==
  IF day = <<>> THEN ""
  ELSE IF Len(day) = 1 THEN CodeOfDay(day[1])
  ELSE CodeOfDay(day[1]) \o "," \o CodesOf(Tail(day))

\* the until stamp in UTC basic format, by the day of until
UntilTextOfDay(z) ==
  CASE z = 20156 -> "20250310T035959Z"
    [] z = 20203 -> "20250426T035959Z"
    [] z = 20427 -> "20251206T045959Z"

\* C10: the rule of every exported Course is
\* FREQ=WEEKLY;BYDAY=<codes>;INTERVAL=1;UNTIL=<until in UTC basic format>,
\* <codes> the comma-join of the two-letter codes of the Course's day-set
\* in the order listed, not re-sorted and not de-duplicated; the day-set
\* Monday, Wednesday gives BYDAY=MO,WE.
ThmC10 ==
  (effect.kind # "none" /\ selectedCourses # <<>>) =>
    \A k \in 1..Len(Exported) :
       /\ k <= Len(effect.events)
       /\ effect.events[k].recurrenceRule =
            "FREQ=WEEKLY;BYDAY=" \o CodesOf(Get(Exported[k].day))
              \o ";INTERVAL=1;UNTIL="
              \o UntilTextOfDay(Get(Exported[k].until).day)
       /\ Exported[k] = cMonWed =>
            effect.events[k].recurrenceRule =
              "FREQ=WEEKLY;BYDAY=MO,WE;INTERVAL=1;UNTIL=20250426T035959Z"
       /\ Exported[k] = cMonMon =>
            effect.events[k].recurrenceRule =
              "FREQ=WEEKLY;BYDAY=MO,MO;INTERVAL=1;UNTIL=20251206T045959Z"

\* the day-set Wednesday, Monday is exported as WE,MO
WitC10 ==
  /\ effect.kind = "saved"
  /\ Len(selectedCourses) >= 1
  /\ selectedCourses[1] = cWedMon
  /\ Len(effect.events) >= 1
  /\ effect.events[1].recurrenceRule =
       "FREQ=WEEKLY;BYDAY=WE,MO;INTERVAL=1;UNTIL=20251206T045959Z"

(***************************************************************************)
(* C8 (SpecAssemble): Meetings that lack a part.                           *)
(***************************************************************************)
\* the body rows that hold a start and an end time string
TimePairRows == {rowTimeSpec, rowTime9}

\* C8: a Course is emitted for a Meeting only if the Meeting has both a
\* start and an end time string (and a base course, a day-set and two date
\* strings); so a table body none of whose rows holds both time strings
\* gives no Course.
CexC8 ==
  (asmDone /\ \A i \in 1..Len(rowsRead) : rowsRead[i] \notin TimePairRows)
    => parsedCourses = <<>>

(***************************************************************************)
(* C9 (SpecLayout): the order of rows and of cells.  rowGeom[k] is the     *)
(* page, the rounded y and the cells' x of row k of allRows.               *)
(***************************************************************************)
\* C9 as stated: the cells of each row are in strictly increasing x, and
\* the rows are in strictly decreasing rounded y across the whole document.
CexC9 ==
  /\ \A k \in 1..Len(rowGeom) :
        \A j \in 1..(Len(rowGeom[k].xs) - 1) :
           rowGeom[k].xs[j] < rowGeom[k].xs[j + 1]
  /\ \A k \in 1..(Len(rowGeom) - 1) : rowGeom[k].y > rowGeom[k + 1].y

\* C9 amended: the cells of each row are in non-decreasing x (strictly
\* increasing when no two fragments of the row share an x), the rows of a
\* page come before the rows of every later page, and within one page the
\* rows are in strictly decreasing rounded y; the rounded y starts anew on
\* each page.
ThmC9 ==
  /\ Len(rowGeom) = Len(allRows)
  /\ \A k \in 1..Len(rowGeom) :
        /\ Len(rowGeom[k].xs) = Len(allRows[k])
        /\ rowGeom[k].xs # <<>>
        /\ \A j \in 1..(Len(rowGeom[k].xs) - 1) :
              rowGeom[k].xs[j] <= rowGeom[k].xs[j + 1]
  /\ \A k \in 1..(Len(rowGeom) - 1) :
        /\ rowGeom[k].page <= rowGeom[k + 1].page
        /\ rowGeom[k].page = rowGeom[k + 1].page =>
             rowGeom[k].y > rowGeom[k + 1].y

\* two rows of the first page, then a row of the second page that is not
\* lower than the last row of the first
WitC9 ==
  /\ Len(rowGeom) = 3
  /\ rowGeom[1].page = 1 /\ rowGeom[2].page = 1 /\ rowGeom[3].page = 2
  /\ rowGeom[1].y > rowGeom[2].y
  /\ rowGeom[2].y <= rowGeom[3].y

(***************************************************************************)
(* SpecSplit: the location branch of the row loop, and split3 in it, on    *)
(* every single-cell row of at most MaxTokens characters drawn from        *)
(* SplitTokens.  The row is read after one of the row sequences of         *)
(* SplitPrefixes; the last of them ends with a location row whose third    *)
(* part is empty.                                                          *)
(***************************************************************************)
MaxTokens == 4      \* characters of the row drawn in SpecSplit

SplitTokens == {"a", "1", "*", ",", " "}

rowLocNoRoom == <<<<"a", " ", "*", ",", "a", ",">>>>

\* a sequence of rows and the pending Meeting the row loop holds after it
SplitPrefixes ==
  {[rows |-> <<rowIntro>>, pending |-> None],
   [rows |-> <<rowIntro, rowDayMW, rowTime9>>,
    pending |-> Some([EmptyMeeting EXCEPT
                        !.day = Some(<<"Monday", "Wednesday">>),
                        !.timeStrings = Some(<<"09:00AM", "09:50AM">>)])],
   [rows |-> <<rowIntro, rowDayMW, rowTime9, rowLocNoRoom>>,
    pending |-> Some([EmptyMeeting EXCEPT
                        !.day = Some(<<"Monday", "Wednesday">>),
                        !.timeStrings = Some(<<"09:00AM", "09:50AM">>),
                        !.campus = Some("a *"),
                        !.location = Some("a"),
                        !.room = Some("")])]}

\* the texts a row can hold: a cell is trimmed and not empty
SplitTexts ==
  {t \in UNION {[1..n -> SplitTokens] : n \in 1..MaxTokens} :
     t[1] # " " /\ t[Len(t)] # " "}

InitSplit ==
  /\ AppIdle /\ LayIdle
  /\ \E p \in SplitPrefixes :
       /\ rowsRead = p.rows
       /\ pendingMeeting = p.pending
  /\ baseCourse =
       Some([crn |-> 12345, title |-> "Intro to X", details |-> "Lecture"])
  /\ currentDateStrings = <<"01/06/2025", "04/25/2025">>
  /\ parsedCourses = <<>>
  /\ asmDone = FALSE

\* one iteration of the row loop on the single-cell row of the given text
SplitRow(text) ==
  /\ ~asmDone
  /\ \E p \in SplitPrefixes : rowsRead = p.rows
  /\ SetAsmState(RowStep(AsmState, <<text>>))
  /\ rowsRead' = Append(rowsRead, <<text>>)
  /\ UNCHANGED asmDone

NextSplit ==
  \/ \E text \in SplitTexts : SplitRow(text) /\ UNCHANGED <<appVars, layVars>>
  \/ AsmFinish /\ UNCHANGED <<appVars, layVars>>

SpecSplit == InitSplit /\ [][NextSplit]_vars

(***************************************************************************)
(* C11 (SpecSplit): split3 and the location row that does not split.       *)
(***************************************************************************)
\* the positions of the separator in a text
SepsOf(t) == {i \in 1..Len(t) : t[i] = ","}
Greatest(S) == CHOOSE i \in S : \A j \in S : j <= i

\* a row read after one of the prefixes, and that prefix
DrawnAfter(p) ==
  /\ ~asmDone
  /\ Len(rowsRead) = Len(p.rows) + 1
  /\ SubSeq(rowsRead, 1, Len(p.rows)) = p.rows
DrawnText == rowsRead[Len(rowsRead)][1]

\* the row loop takes the text as a location row after prefix p
TakenAsLocation(p, t) ==
  /\ SepsOf(t) # {}
  /\ \/ \E i \in 1..Len(t) : t[i] = "*"
     \/ \E i \in SepsOf(t) : \E j \in (i + 1)..Len(t) :
          t[j] = "1" /\ \A k \in (i + 1)..(j - 1) : t[k] = " "
  /\ p.pending = None \/ Get(p.pending).room \in {None, Some("")}

\* split3 of a text with at least two separators: left is the text before
\* the first separator, right the text after the last, middle the text
\* between them; left and right hold no separator and the three parts
\* joined by the separator are the text
SplitAlgebraC11 ==
  \A p \in SplitPrefixes :
     (DrawnAfter(p) /\ Cardinality(SepsOf(DrawnText)) >= 2) =>
       LET t == DrawnText
           f == Least(SepsOf(t))
           l == Greatest(SepsOf(t))
           parts == split3(t, ",")
       IN /\ parts = <<SubSeq(t, 1, f - 1), SubSeq(t, f + 1, l - 1),
                       SubSeq(t, l + 1, Len(t))>>
          /\ SepsOf(parts[1]) = {} /\ SepsOf(parts[3]) = {}
          /\ parts[1] \o <<",">> \o parts[2] \o <<",">> \o parts[3] = t
          /\ TakenAsLocation(p, t) =>
               /\ IsSome(pendingMeeting)
               /\ Get(pendingMeeting).campus = Some(Str(Trim(SubSeq(t, 1, f - 1))))
               /\ Get(pendingMeeting).location =
                    Some(Str(Trim(SubSeq(t, f + 1, l - 1))))
               /\ Get(pendingMeeting).room =
                    Some(Str(Trim(SubSeq(t, l + 1, Len(t)))))

\* a location row with fewer than two separators: the whole text is the
\* location, campus and room are unset, day-set, time pair and date-range
\* strings are those of the Meeting before the row
SplitFallbackC11 ==
  \A p \in SplitPrefixes :
     (/\ DrawnAfter(p)
      /\ Cardinality(SepsOf(DrawnText)) < 2
      /\ TakenAsLocation(p, DrawnText)) =>
       /\ split3(DrawnText, ",") = <<>>
       /\ IsSome(pendingMeeting)
       /\ Get(pendingMeeting).location = Some(Str(DrawnText))
       /\ Get(pendingMeeting).campus = None
       /\ ~Truthy(Get(pendingMeeting).room)
       /\ Get(pendingMeeting).day = Spread(p.pending).day
       /\ Get(pendingMeeting).timeStrings = Spread(p.pending).timeStrings
       /\ Get(pendingMeeting).dateStrings = Spread(p.pending).dateStrings

\* the prefixes are states of the row loop
SplitPrefixesAreLoopStates ==
  \A p \in SplitPrefixes :
     RowLoop(AsmInit, p.rows) =
       [baseCourse |-> Some([crn |-> 12345, title |-> "Intro to X",
                             details |-> "Lecture"]),
        pendingMeeting |-> p.pending,
        currentDateStrings |-> <<"01/06/2025", "04/25/2025">>,
        parsedCourses |-> <<>>]

\* C11: for every string with at least two separators split3 returns the
\* first token, everything between, and the last token, which joined by
\* the separator give the string back; for a location row with fewer than
\* two separators the handler records the whole text as the location, with
\* campus and room unset and day-set, time pair and date-range strings
\* unchanged.
CexC11 == SplitPrefixesAreLoopStates /\ SplitAlgebraC11 /\ SplitFallbackC11

(***************************************************************************)
(* SpecBlock: the row loop inside a course block.  It starts in one of the *)
(* states of BlockPrefixes, each reached by a course row and two more rows, *)
(* and reads up to MaxRows further rows of BlockRows.                       *)
(***************************************************************************)
BlockRows ==
  {rowAlgo, rowLateRange, rowDayF, rowDayTR, rowTime2, rowLocKlaus, rowName}

BlockPrefixes ==
  {\* a complete Meeting with a date range carried from the course row
   [rows |-> <<rowIntro, rowDayMW, rowTime9>>,
    base |-> [crn |-> 12345, title |-> "Intro to X", details |-> "Lecture"],
    dates |-> <<"01/06/2025", "04/25/2025">>,
    pending |-> Some([EmptyMeeting EXCEPT
                        !.day = Some(<<"Monday", "Wednesday">>),
                        !.timeStrings = Some(<<"09:00AM", "09:50AM">>)])],
   \* a day-set and a time pair, but no date range yet
   [rows |-> <<rowNoRange, rowDayMW, rowTime9>>,
    base |-> [crn |-> 23456, title |-> "Thesis", details |-> "Research"],
    dates |-> <<"TBA">>,
    pending |-> Some([EmptyMeeting EXCEPT
                        !.day = Some(<<"Monday", "Wednesday">>),
                        !.timeStrings = Some(<<"09:00AM", "09:50AM">>)])],
   \* a time pair without a day-set
   [rows |-> <<rowIntro, rowName, rowTime9>>,
    base |-> [crn |-> 12345, title |-> "Intro to X", details |-> "Lecture"],
    dates |-> <<"01/06/2025", "04/25/2025">>,
    pending |-> Some([EmptyMeeting EXCEPT
                        !.timeStrings = Some(<<"09:00AM", "09:50AM">>)])]}

InitBlock ==
  /\ AppIdle /\ LayIdle
  /\ \E p \in BlockPrefixes :
       /\ rowsRead = p.rows
       /\ baseCourse = Some(p.base)
       /\ currentDateStrings = p.dates
       /\ pendingMeeting = p.pending
  /\ parsedCourses = <<>>
  /\ asmDone = FALSE

\* one iteration of the row loop, on row
BlockRow(row) ==
  /\ ~asmDone
  /\ \E p \in BlockPrefixes : Len(rowsRead) < Len(p.rows) + MaxRows
  /\ SetAsmState(RowStep(AsmState, row))
  /\ rowsRead' = Append(rowsRead, row)
  /\ UNCHANGED asmDone

NextBlock ==
  \/ \E row \in BlockRows : BlockRow(row) /\ UNCHANGED <<appVars, layVars>>
  \/ AsmFinish /\ UNCHANGED <<appVars, layVars>>

SpecBlock == InitBlock /\ [][NextBlock]_vars

\* the prefixes are states of the row loop, and the locals are at every
\* moment those the row loop has after the rows read
BlockFollowsLoop ==
  /\ \A p \in BlockPrefixes :
        RowLoop(AsmInit, p.rows) =
          [baseCourse |-> Some(p.base), pendingMeeting |-> p.pending,
           currentDateStrings |-> p.dates, parsedCourses |-> <<>>]
  /\ ~asmDone => AsmState = RowLoop(AsmInit, rowsRead)
  /\ asmDone => parsedCourses = Assemble(rowsRead)

(***************************************************************************)
(* C12 (SpecBlock): what rows do to a complete pending Meeting.            *)
(***************************************************************************)
\* the pending Meeting has a day-set and a time pair, and a date range of
\* two entries is available
CompleteC12 == ~asmDone /\ Emits(AsmState)

\* the row read by the step, "End" for the step after the last row
StepClass ==
  IF asmDone' THEN "End" ELSE RowClass(AsmState, rowsRead'[Len(rowsRead')])

\* milliseconds into the day of a time string
ClockMsOf(s) ==
  CASE s = "09:00AM" -> 9 * MsPerHour
    [] s = "09:50AM" -> 9 * MsPerHour + 50 * MsPerMinute
    [] s = "02:00PM" -> 14 * MsPerHour
    [] s = "03:30PM" -> 15 * MsPerHour + 30 * MsPerMinute

\* Course c carries the day-set and the time pair of Meeting m
CarriesC12(c, m) ==
  /\ c.day = m.day
  /\ Get(c.start).valid /\ Get(c.start).ms = ClockMsOf(Get(m.timeStrings)[1])
  /\ Get(c.end).valid /\ Get(c.end).ms = ClockMsOf(Get(m.timeStrings)[2])

\* the step leaves day-set and time pair of the pending Meeting alone and
\* emits nothing
KeptC12 ==
  /\ IsSome(pendingMeeting')
  /\ Get(pendingMeeting').day = Get(pendingMeeting).day
  /\ Get(pendingMeeting').timeStrings = Get(pendingMeeting).timeStrings
  /\ parsedCourses' = parsedCourses

\* the step emits the pending Meeting as the next Course
EmittedC12 ==
  /\ Len(parsedCourses') = Len(parsedCourses) + 1
  /\ SubSeq(parsedCourses', 1, Len(parsedCourses)) = parsedCourses
  /\ CarriesC12(parsedCourses'[Len(parsedCourses')], Get(pendingMeeting))

\* two day+time patterns back to back give two Courses, in input order
TwoPatternsC12 ==
  (/\ asmDone
   /\ Len(rowsRead) = 5
   /\ SubSeq(rowsRead, 1, 3) = <<rowIntro, rowDayMW, rowTime9>>
   /\ rowsRead[4] \in {rowDayF, rowDayTR}
   /\ rowsRead[5] = rowTime2) =>
     /\ Len(parsedCourses) = 2
     /\ parsedCourses[1].day = Some(<<"Monday", "Wednesday">>)
     /\ Get(parsedCourses[1].start).ms = ClockMsOf("09:00AM")
     /\ Get(parsedCourses[1].end).ms = ClockMsOf("09:50AM")
     /\ parsedCourses[2].day =
          Some(IF rowsRead[4] = rowDayF THEN <<"Friday">>
               ELSE <<"Tuesday", "Thursday">>)
     /\ Get(parsedCourses[2].start).ms = ClockMsOf("02:00PM")
     /\ Get(parsedCourses[2].end).ms = ClockMsOf("03:30PM")

\* C12 as stated: once the pending Meeting has a day-set and a time pair
\* and a date range is available, every later row either leaves its
\* day-set and time pair alone or emits it as a Course with exactly that
\* day-set and time pair, and so does the end of input; two patterns back
\* to back give two Courses in input order.
CexC12 ==
  /\ []TwoPatternsC12
  /\ [][CompleteC12 => (KeptC12 \/ EmittedC12)]_vars

\* C12 amended: a complete pending Meeting is emitted, with exactly its
\* day-set and time pair, by the next course row, date-range row or day row
\* and by the end of input; a location row and a row of no class leave its
\* day-set and time pair alone; a time row replaces its time pair by the
\* row's, emitting nothing, so the earlier time pair reaches no Course.
\* Two patterns back to back, each a day row followed by a time row, give
\* two Courses in input order.
ThmC12 ==
  /\ []TwoPatternsC12
  /\ [][CompleteC12 =>
          /\ StepClass \in {"Header", "DateRange", "Day", "End"} => EmittedC12
          /\ StepClass \in {"Location", "Unrecognized"} => KeptC12
          /\ StepClass = "Time" =>
               /\ parsedCourses' = parsedCourses
               /\ Get(pendingMeeting').day = Get(pendingMeeting).day
               /\ Get(pendingMeeting').timeStrings =
                    Some(<<"02:00PM", "03:30PM">>)]_vars

\* a day row, a time row and a second time row, then the end of input: one
\* Course, with the second time pair
WitC12 ==
  /\ asmDone
  /\ rowsRead = <<rowIntro, rowDayMW, rowTime9, rowTime2>>
  /\ Len(parsedCourses) = 1
  /\ parsedCourses[1].day = Some(<<"Monday", "Wednesday">>)
  /\ Get(parsedCourses[1].start).ms = ClockMsOf("02:00PM")

(***************************************************************************)
(* C13 (SpecBlock): a Meeting whose finalization emits nothing.            *)
(***************************************************************************)
\* the step finalizes a pending Meeting that started a pattern (the next
\* course row, or a date-range row or day row read when it has a day-set
\* and a time pair), and finalizeMeeting returns without emitting
NotEmittedC13 ==
  /\ ~asmDone
  /\ IsSome(pendingMeeting)
  /\ ~Emits(AsmState)
  /\ \/ StepClass = "Header"
     \/ /\ StepClass \in {"DateRange", "Day"}
        /\ IsSome(Get(pendingMeeting).day)
        /\ IsSome(Get(pendingMeeting).timeStrings)

\* the Meeting pending after the step holds nothing of the one before it
\* but what the row itself set
InheritsNothingC13 ==
  \/ pendingMeeting' = None
  \/ /\ Get(pendingMeeting').timeStrings = None
     /\ Get(pendingMeeting').campus = None
     /\ Get(pendingMeeting').location = None
     /\ Get(pendingMeeting').room = None
     /\ StepClass # "Day" => Get(pendingMeeting').day = None

\* a course row without a date range, "Monday, Wednesday", a time pair,
\* then "Friday" and a date-range row: the Friday Meeting has no time row
NoCourseC13 ==
  (/\ asmDone
   /\ rowsRead = <<rowNoRange, rowDayMW, rowTime9, rowDayF, rowLateRange>>) =>
     parsedCourses = <<>>

\* C13: when the finalization of a Meeting emits no Course, the Meeting
\* the next row starts holds no day-set, time pair or location of it, and
\* no Course emitted later carries a field read for it.
CexC13 ==
  /\ []NoCourseC13
  /\ [][NotEmittedC13 => InheritsNothingC13]_vars

(***************************************************************************)
(* SpecClass: the classification of a body row.  The row loop starts in    *)
(* one of the states of ClassPrefixes and reads up to MaxClassRows rows of *)
(* ClassRows, among them rows that match more than one class.              *)
(***************************************************************************)
MaxClassRows == 2   \* rows read in SpecClass

\* the table header repeated inside the body
rowTitleAgain == cTableHead
\* a date range followed by a time: matches dateRangeRegex and isTimeRow
rowRangeTime == <<cLateRange, <<"09:00", " ", "AM">>>>
\* a time pair followed by a comma and digits, in one cell: matches
\* isTimeRow and the conditions of the location branch
rowTimeRoom ==
  <<<<"02:00", " ", "PM", " ", "-", " ", "03:30", " ", "PM", ",", " ",
      "101">>>>
\* an asterisk and a comma followed by digits, in two cells
rowTwoCells == <<<<"Klaus", " ", "*", ",">>, <<"1443">>>>

ClassRows ==
  {rowAlgo, rowTitleAgain, rowLateRange, rowRangeTime, rowDayF, rowDayTR,
   rowTime2, rowTimeRoom, rowLocKlaus, rowLocOnline, rowLocMain, rowName,
   rowTwoCells}

ClassPrefixes ==
  BlockPrefixes \cup
  {\* a Meeting that has its room
   [rows |-> <<rowIntro, rowDayMW, rowLocKlaus>>,
    base |-> [crn |-> 12345, title |-> "Intro to X", details |-> "Lecture"],
    dates |-> <<"01/06/2025", "04/25/2025">>,
    pending |-> Some([EmptyMeeting EXCEPT
                        !.day = Some(<<"Monday", "Wednesday">>),
                        !.campus = Some("Georgia Tech-Atlanta *"),
                        !.location = Some("Klaus"),
                        !.room = Some("1443")])]}

InitClass ==
  /\ AppIdle /\ LayIdle
  /\ \E p \in ClassPrefixes :
       /\ rowsRead = p.rows
       /\ baseCourse = Some(p.base)
       /\ currentDateStrings = p.dates
       /\ pendingMeeting = p.pending
  /\ parsedCourses = <<>>
  /\ asmDone = FALSE

\* one iteration of the row loop, on row
ClassRow(row) ==
  /\ ~asmDone
  /\ \E p \in ClassPrefixes : Len(rowsRead) < Len(p.rows) + MaxClassRows
  /\ SetAsmState(RowStep(AsmState, row))
  /\ rowsRead' = Append(rowsRead, row)
  /\ UNCHANGED asmDone

NextClass ==
  \/ \E row \in ClassRows : ClassRow(row) /\ UNCHANGED <<appVars, layVars>>
  \/ AsmFinish /\ UNCHANGED <<appVars, layVars>>

SpecClass == InitClass /\ [][NextClass]_vars

(***************************************************************************)
(* C14 (SpecClass): one class per row, by priority.                        *)
(***************************************************************************)
\* the classes a row matches, read off the row
MatchesC14(row) ==
  CASE row = rowAlgo -> {"Header", "DateRange"}
    [] row = rowTitleAgain -> {}
    [] row = rowLateRange -> {"DateRange"}
    [] row = rowRangeTime -> {"DateRange", "Time"}
    [] row \in {rowDayF, rowDayTR} -> {"Day"}
    [] row = rowTime2 -> {"Time"}
    [] row = rowTimeRoom -> {"Time", "Location"}
    [] row \in {rowLocKlaus, rowLocOnline} -> {"Location"}
    [] row \in {rowLocMain, rowName, rowTwoCells} -> {}

PriorityC14 == <<"Header", "DateRange", "Day", "Time", "Location">>

\* the first class of the priority order the row matches; a row is a
\* Location row only while the pending Meeting has no room
FirstClassC14(row) ==
  LET M == IF IsSome(pendingMeeting) /\ Truthy(Get(pendingMeeting).room)
           THEN MatchesC14(row) \ {"Location"} ELSE MatchesC14(row)
  IN IF M = {} THEN "Unrecognized"
     ELSE PriorityC14[Least({i \in 1..5 : PriorityC14[i] \in M})]

\* what the row sets when handled as a class
DayOfRowC14(row) ==
  IF row = rowDayF THEN <<"Friday">> ELSE <<"Tuesday", "Thursday">>
TimeOfRowC14(row) ==
  IF row = rowTime2 THEN <<"02:00PM", "03:30PM">>
  ELSE <<"02:00PM", "03:30PM,101">>
DatesOfRowC14(row) ==
  IF row = rowLateRange THEN <<"03/10/2025", "04/25/2025">>
  ELSE <<"03/10/2025", "04/25/2025 09:00 AM">>

\* the Meeting the row's handler works on: the pending one, or a fresh one
\* when there is none or the handler has just emitted it
DraftC14 == IF parsedCourses' # parsedCourses THEN EmptyMeeting
            ELSE Spread(pendingMeeting)

\* C14: a body row is handled as the first class it matches in the order
\* Header, DateRange, Day, Time, Location, and as Unrecognized when it
\* matches none; it is handled as that class only (a row that also matches
\* a later class sets nothing of the later class), and an Unrecognized row
\* changes neither the base course, the pending Meeting, the carried
\* date-range strings nor the output list.
ThmC14 ==
  [][(~asmDone /\ ~asmDone') =>
       LET row == rowsRead'[Len(rowsRead')]
           class == FirstClassC14(row)
       IN
       /\ class = "Header" =>
            /\ baseCourse' = Some([crn |-> 23456, title |-> "Algorithms",
                                   details |-> "Lecture"])
            /\ pendingMeeting' = None
            /\ currentDateStrings' = <<"08/18/2025", "12/05/2025">>
       /\ class = "DateRange" =>
            /\ baseCourse' = baseCourse
            /\ currentDateStrings' = DatesOfRowC14(row)
            /\ pendingMeeting' =
                 Some([DraftC14 EXCEPT !.dateStrings = Some(DatesOfRowC14(row))])
       /\ class = "Day" =>
            /\ baseCourse' = baseCourse
            /\ currentDateStrings' = currentDateStrings
            /\ pendingMeeting' =
                 Some([DraftC14 EXCEPT !.day = Some(DayOfRowC14(row))])
       /\ class = "Time" =>
            /\ baseCourse' = baseCourse
            /\ currentDateStrings' = currentDateStrings
            /\ parsedCourses' = parsedCourses
            /\ pendingMeeting' =
                 Some([Spread(pendingMeeting) EXCEPT
                         !.timeStrings = Some(TimeOfRowC14(row))])
       /\ class = "Location" =>
            /\ baseCourse' = baseCourse
            /\ currentDateStrings' = currentDateStrings
            /\ parsedCourses' = parsedCourses
            /\ pendingMeeting' =
                 Some(IF row = rowLocKlaus
                      THEN [Spread(pendingMeeting) EXCEPT
                              !.campus = Some("Georgia Tech-Atlanta *"),
                              !.location = Some("Klaus"),
                              !.room = Some("1443")]
                      ELSE [Spread(pendingMeeting) EXCEPT
                              !.location = Some("Online *, TBA")])
       /\ class = "Unrecognized" =>
            /\ baseCourse' = baseCourse
            /\ currentDateStrings' = currentDateStrings
            /\ parsedCourses' = parsedCourses
            /\ pendingMeeting' = pendingMeeting]_vars

\* the row holding a date range and a time was read as a date-range row
\* after a Meeting that has a time pair: the time pair is the earlier one
WitC14 ==
  /\ ~asmDone
  /\ rowsRead = <<rowIntro, rowName, rowTime9, rowRangeTime>>
  /\ currentDateStrings = <<"03/10/2025", "04/25/2025 09:00 AM">>
  /\ Get(pendingMeeting).timeStrings = Some(<<"09:00AM", "09:50AM">>)

(***************************************************************************)
(* C15 (SpecBlock): the carried date-range strings.                        *)
(***************************************************************************)
\* first and last day of a pair of date strings, in days since 1970-01-01
RangeDaysC15(r) ==
  CASE r = <<"01/06/2025", "04/25/2025">> -> <<20094, 20203>>
    [] r = <<"03/10/2025", "04/25/2025">> -> <<20157, 20203>>
    [] r = <<"08/18/2025", "12/05/2025">> -> <<20318, 20427>>

\* the date-range strings in force for the pending Meeting: its own when
\* it has at least two, otherwise the carried ones
InForceC15 ==
  IF /\ IsSome(pendingMeeting)
     /\ IsSome(Get(pendingMeeting).dateStrings)
     /\ Len(Get(Get(pendingMeeting).dateStrings)) >= 2
  THEN Get(Get(pendingMeeting).dateStrings)
  ELSE currentDateStrings

\* Course c is resolved with the pair r of date strings: it starts in the
\* week that begins on r's first day and recurs until the last instant of
\* r's last day
ResolvedWithC15(c, r) ==
  /\ Get(c.start).day \in RangeDaysC15(r)[1]..(RangeDaysC15(r)[1] + 6)
  /\ Get(c.end).day = Get(c.start).day
  /\ Get(c.until) = [valid |-> TRUE, day |-> RangeDaysC15(r)[2],
                     ms |-> MsPerDay - 1]

\* C15: the carried date-range strings change only at a course row, which
\* sets them to the two halves of its date cell, and at a date-range row,
\* which sets them to its own two halves; a Meeting is resolved with its
\* own date-range strings when it has two and otherwise with the carried
\* ones, in both cases those in force before the row that emits it: a
\* Meeting complete when a date-range row arrives is resolved with the
\* range before that row, and the Meetings after the row with the new one.
ThmC15 ==
  /\ [][currentDateStrings' # currentDateStrings =>
          \/ /\ StepClass = "Header"
             /\ currentDateStrings' = <<"08/18/2025", "12/05/2025">>
          \/ /\ StepClass = "DateRange"
             /\ currentDateStrings' = <<"03/10/2025", "04/25/2025">>]_vars
  /\ [][CompleteC12 /\ StepClass = "DateRange" =>
          Len(parsedCourses') = Len(parsedCourses) + 1]_vars
  /\ [][Len(parsedCourses') > Len(parsedCourses) =>
          /\ Len(parsedCourses') = Len(parsedCourses) + 1
          /\ ResolvedWithC15(parsedCourses'[Len(parsedCourses')],
                             InForceC15)]_vars

\* a complete Meeting, a date-range row, then a day row and a time row:
\* the first Course starts in the week of 01/06/2025, the second on Friday
\* 03/14/2025, in the week of the date-range row
WitC15 ==
  /\ asmDone
  /\ rowsRead = <<rowIntro, rowDayMW, rowTime9, rowLateRange, rowDayF, rowTime2>>
  /\ Len(parsedCourses) = 2
  /\ Get(parsedCourses[1].start).day = 20094
  /\ Get(parsedCourses[2].start).day = 20161

(***************************************************************************)
(* C16 (SpecLayout): fragments and rows.  rowGeom[k].y4s are the baseline  *)
(* y of the cells of row k, in quarters of a unit.                         *)
(***************************************************************************)
\* the fragments that reached a row, with the row's page and key
CellsC16 ==
  UNION {{[row |-> k, page |-> rowGeom[k].page, y |-> rowGeom[k].y,
           y4 |-> rowGeom[k].y4s[j]] : j \in 1..Len(rowGeom[k].y4s)} :
         k \in 1..Len(rowGeom)}

AbsC16(n) == IF n < 0 THEN 0 - n ELSE n

\* C16 as stated: two fragments of one page whose baseline y differ by
\* less than one unit are in the same Row.
CexC16 ==
  \A a, b \in CellsC16 :
     (a.page = b.page /\ AbsC16(a.y4 - b.y4) < 4) => a.row = b.row

\* C16 amended: the fragments of a page are grouped by the integer nearest
\* to their baseline y, halves rounding up: a fragment is in the Row whose
\* key y satisfies y - 1/2 <= baseline < y + 1/2, two fragments of one page
\* are in the same Row exactly when they round to the same integer, and
\* two fragments that differ by less than one unit are in the same Row or
\* in Rows whose keys differ by one (they lie on both sides of a half).
ThmC16 ==
  /\ \A a \in CellsC16 : 4 * a.y - 2 <= a.y4 /\ a.y4 < 4 * a.y + 2
  /\ \A a, b \in CellsC16 :
        a.page = b.page =>
          /\ a.row = b.row <=> a.y = b.y
          /\ AbsC16(a.y4 - b.y4) < 4 => AbsC16(a.y - b.y) <= 1

\* one page with fragments at baselines 0.25, 0.5 and 1.25: the first is a
\* Row of its own, the other two share the Row of key 1
WitC16 ==
  /\ Len(rowGeom) = 2
  /\ rowGeom[1].page = 1 /\ rowGeom[2].page = 1
  /\ rowGeom[1].y = 1 /\ Range(rowGeom[1].y4s) = {2, 5}
  /\ rowGeom[2].y = 0 /\ rowGeom[2].y4s = <<1>>

(***************************************************************************)
(* The earlier variant of the program: the resolution of start, end and    *)
(* until in its time row case, and the events of its handleDownload.       *)
(***************************************************************************)
\* the time row case without the shift to the first matching weekday
ResolveOldUnaligned(day, timeStrings, dateStrings) ==
  LET endStr == IF Len(timeStrings) >= 2 THEN timeStrings[2] ELSE "undefined"
  IN [start |-> FromFormatDateClock(dateStrings[1], timeStrings[1]),
      end |-> FromFormatDateClock(dateStrings[1], endStr),
      until |-> MinusMillis(PlusDays(FromFormatDate(dateStrings[2]), 1), 1)]

\* currentCourse.start, .end and .until as the time row case sets them, for
\* currentCourse.day, the row's timeStrings and currentDateStrings
ResolveOld(day, timeStrings, dateStrings) ==
  LET endStr == IF Len(timeStrings) >= 2 THEN timeStrings[2] ELSE "undefined"
      startLocal == FromFormatDateClock(dateStrings[1], timeStrings[1])
      endLocal == FromFormatDateClock(dateStrings[1], endStr)
      until == MinusMillis(PlusDays(FromFormatDate(dateStrings[2]), 1), 1)
      alignedStart == alignToFirstMatchingWeekday(startLocal, Get(day))
      diffDays == DiffDays(StartOfDay(alignedStart), StartOfDay(startLocal))
  IN IF IsSome(day) /\ Len(Get(day)) > 0
     THEN [start |-> PlusDays(startLocal, diffDays),
           end |-> PlusDays(endLocal, diffDays), until |-> until]
     ELSE [start |-> startLocal, end |-> endLocal, until |-> until]

\* the event the earlier handleDownload builds for a course that has its
\* temporal fields
EventOfOld(course) ==
  [title |-> course.details,
   description |-> course.title,
   start |-> toICSArrayUTC(Get(course.start)),
   startInputType |-> "utc", startOutputType |-> "utc",
   end |-> toICSArrayUTC(Get(course.end)),
   endInputType |-> "utc", endOutputType |-> "utc",
   location |-> EventLocation(course),
   recurrenceRule |-> rruleString(course),
   transp |-> "OPAQUE"]

(***************************************************************************)
(* C17 (SpecResolve): the two variants on the same Meeting and Course.     *)
(***************************************************************************)
\* the time pair of the time row read
TimePairC17 ==
  IF rowsRead[3] = rowTime9 THEN <<"09:00AM", "09:50AM">>
  ELSE <<"02:00PM", "03:30PM">>

\* hours from the zone's wall clock to UTC on a day of 2025
HoursToUtcC17(day) == IF day >= 20156 /\ day < 20394 THEN 4 ELSE 5

\* C17: for the same non-empty day-set, time pair and date-range strings
\* the earlier variant resolves the start, end and until the current one
\* resolves; for the Course so resolved the two variants' events have the
\* same title, description, location and recurrence rule, the earlier one
\* with start and end tuples in UTC (the wall clock plus 5 hours, 4 in
\* daylight time) tagged "utc", the current one with the wall clock tuples
\* tagged "local".
ThmC17 ==
  asmDone =>
    /\ Len(parsedCourses) = 1
    /\ LET c == parsedCourses[1]
           old == ResolveOld(c.day, TimePairC17, currentDateStrings)
           eo == EventOfOld(c)
           en == EventOf(c)
           off == HoursToUtcC17(Get(c.start).day)
       IN /\ old.start = Get(c.start)
          /\ old.end = Get(c.end)
          /\ old.until = Get(c.until)
          /\ eo.title = en.title /\ eo.description = en.description
          /\ eo.location = en.location /\ eo.transp = en.transp
          /\ eo.recurrenceRule = en.recurrenceRule
          /\ {en.startInputType, en.startOutputType, en.endInputType,
              en.endOutputType} = {"local"}
          /\ {eo.startInputType, eo.startOutputType, eo.endInputType,
              eo.endOutputType} = {"utc"}
          /\ en.start[4] = Get(c.start).ms \div MsPerHour
          /\ eo.start = [en.start EXCEPT ![4] = @ + off]
          /\ eo.end = [en.end EXCEPT ![4] = @ + off]

\* a Tuesday/Thursday Meeting at 09:00 in a range from Monday 08/18/2025:
\* both variants start it on Tuesday 08/19, 09:00 local and 13:00 UTC
WitC17 ==
  /\ asmDone
  /\ currentDateStrings[1] = "08/18/2025"
  /\ Len(parsedCourses) = 1
  /\ parsedCourses[1].day = Some(<<"Tuesday", "Thursday">>)
  /\ ResolveOld(parsedCourses[1].day, <<"09:00AM", "09:50AM">>,
                currentDateStrings).start = Get(parsedCourses[1].start)
  /\ EventOf(parsedCourses[1]).start = <<2025, 8, 19, 9, 0>>
  /\ EventOfOld(parsedCourses[1]).start = <<2025, 8, 19, 13, 0>>

(***************************************************************************)
(* C18 (Spec): the selection that Download exports.                        *)
(***************************************************************************)
\* C18: whenever Download saves a file, every Course of the selection it
\* exported is an element of the current course list.
CexC18 ==
  effect.kind = "saved" =>
    \A i \in 1..Len(selectedCourses) : selectedCourses[i] \in Range(courses)

(***************************************************************************)
(* SpecRace: document B is submitted while the parse of document A awaits  *)
(* the text of its first page; the two parses then resume in any order.    *)
(* Each parse carries the history flag overtaken.                          *)
(***************************************************************************)
InitRace ==
  /\ \E A \in Documents, B \in Documents :
       parses = <<[pages |-> A, next |-> 1, allRows |-> <<>>,
                   overtaken |-> FALSE],
                  [pages |-> B, next |-> 1, allRows |-> <<>>,
                   overtaken |-> FALSE]>>
  /\ courses = initialData
  /\ filename = ""
  /\ selectedCourses = <<>>
  /\ rowSelection = {}
  /\ effect = NoEffect
  /\ AsmIdle /\ LayIdle

NextRace == \E i \in 1..MaxInflight : PageLoaded(i) /\ Others

SpecRace == InitRace /\ [][NextRace]_vars

(***************************************************************************)
(* C19 (SpecRace): two parses in flight.                                   *)
(***************************************************************************)
\* the step is the end of a parse, at position i of parses
FinishesC19(i) ==
  /\ i \in 1..Len(parses)
  /\ IsLastPage(parses[i])
  /\ Len(parses') = Len(parses) - 1
  /\ effect'.kind = "parsed"
  /\ effect'.rows = RowsWithPage(parses[i])
  /\ \A k \in 1..Len(parses') :
        parses'[k].pages = RemoveAt(parses, i)[k].pages

\* a step leaves the row accumulator of every parse alone but for the one
\* parse that resumes, which appends the rows of its own awaited page
OwnAccumulatorC19 ==
  /\ Len(parses') = Len(parses) =>
       \A k \in 1..Len(parses) :
          \/ parses'[k].allRows = parses[k].allRows
          \/ /\ parses'[k].allRows = RowsWithPage(parses[k])
             /\ \A j \in 1..Len(parses) \ {k} :
                   parses'[j].allRows = parses[j].allRows
  /\ Len(parses') < Len(parses) =>
       \E i \in 1..Len(parses) :
          \A k \in 1..Len(parses') :
             parses'[k].allRows = RemoveAt(parses, i)[k].allRows

\* C19: when document B is submitted while the parse of document A awaits
\* page text, then whichever parse ends first, once both have ended the
\* course list and the filename are those the parse of B left: the end of
\* a parse that a later-submitted parse has overtaken changes neither.
\* No parse touches the row accumulator of another.
CexC19 ==
  /\ [][OwnAccumulatorC19]_vars
  /\ [][\A i \in 1..Len(parses) :
          (FinishesC19(i) /\ parses[i].overtaken) =>
            (courses' = courses /\ filename' = filename)]_vars

(***************************************************************************)
(* C20 (SpecResolve): the start and the recurrence boundary.               *)
(***************************************************************************)
\* C20: the resolved start of every emitted Course is not later than its
\* until.  (Stated here for date ranges whose first date is not after the
\* second; a range written backwards is left out.)
CexC20 ==
  (asmDone /\ DayOfDate(currentDateStrings[1]) <= DayOfDate(currentDateStrings[2]))
    => \A i \in 1..Len(parsedCourses) :
          NotAfter(Get(parsedCourses[i].start), Get(parsedCourses[i].until))

(***************************************************************************)
(* C21 (Spec): the filename after a parse that sets no courses.            *)
(***************************************************************************)
\* the parse that has just ended did not reach setCourses: a boundary row
\* is missing or out of order, or no row lies between the two
EndsWithoutCoursesC21 ==
  /\ effect'.kind = "parsed"
  /\ \/ BoundaryAbsent(effect'.rows)
     \/ TableBody(effect'.rows) = <<>>

\* C21: a parse that ends without replacing the course list (boundary rows
\* missing or out of order, or an empty table body) leaves the filename as
\* it was, as it leaves the course list.
CexC21 ==
  [][EndsWithoutCoursesC21 => (courses' = courses /\ filename' = filename)]_vars

=============================================================================
